---- MODULE Spec2Model ----
(***************************************************************************)
(* Model of the opencode-beads plugins: BeadsPlugin (src/src/index.ts) and *)
(* the standalone BeadsGuardPlugin (src/unnamed/part_000), as loaded by    *)
(* the opencode host for a project directory.                              *)
(*                                                                         *)
(* JavaScript values are tagged records [t, v]; a JavaScript string is a   *)
(* sequence of atoms (single characters, or a whole literal of the source  *)
(* where the code never looks inside it).  An `await` is a suspension      *)
(* point: the handler runs synchronously up to it (one action) and resumes *)
(* when the host settles the call (another action).                        *)
(***************************************************************************)
EXTENDS Naturals, Sequences, FiniteSets, Bags

\* Number of hook invocations the host makes in one run.
MaxEvents == 3

\* Longest text the host passes as an argument of a tool whose command is built.
MaxArgLen == 3

----------------------------------------------------------------------------
(* JavaScript values *)

Undefined == [t |-> "undefined", v |-> <<>>]
Null == [t |-> "null", v |-> <<>>]
Str(s) == [t |-> "string", v |-> s]
Num(s) == [t |-> "number", v |-> s]
Bool(b) == [t |-> "boolean", v |-> IF b THEN <<"true">> ELSE <<"false">>]
Obj(f) == [t |-> "object", v |-> f]

\* typeof x
TypeOf(x) == IF x.t = "null" THEN "object" ELSE x.t

\* x[k] for an object x: undefined when the property is missing
Get(x, k) == IF x.t = "object" /\ k \in DOMAIN x.v THEN x.v[k] ELSE Undefined

\* s.startsWith(prefix)
StartsWith(s, prefix) ==
    /\ Len(s) >= Len(prefix)
    /\ SubSeq(s, 1, Len(prefix)) = prefix

----------------------------------------------------------------------------
(* String helpers of the JavaScript runtime *)

\* s.slice(0, k)
SliceTo(s, k) == SubSeq(s, 1, IF Len(s) < k THEN Len(s) ELSE k)

Whitespace == {" ", "\t", "\n", "\r"}

RECURSIVE TrimStart(_)
TrimStart(s) ==
    IF s # <<>> /\ Head(s) \in Whitespace THEN TrimStart(Tail(s)) ELSE s

RECURSIVE TrimEnd(_)
TrimEnd(s) ==
    IF s # <<>> /\ s[Len(s)] \in Whitespace THEN TrimEnd(SubSeq(s, 1, Len(s) - 1)) ELSE s

\* s.trim()
Trim(s) == TrimEnd(TrimStart(s))

\* s.split(sep) for a one-character separator: a sequence of strings
RECURSIVE SplitFrom(_, _, _)
SplitFrom(s, sep, cur) ==
    IF s = <<>> THEN <<cur>>
    ELSE IF Head(s) = sep THEN <<cur>> \o SplitFrom(Tail(s), sep, <<>>)
    ELSE SplitFrom(Tail(s), sep, Append(cur, Head(s)))

Split(s, sep) == SplitFrom(s, sep, <<>>)

\* String(k) for the small counts of the model
Digits == <<"0", "1", "2", "3", "4", "5", "6", "7", "8", "9">>

DigitChars == {Digits[i] : i \in 1..10}

RECURSIVE NumberToString(_)
NumberToString(k) ==
    IF k < 10 THEN <<Digits[k + 1]>>
    ELSE NumberToString(k \div 10) \o <<Digits[(k % 10) + 1]>>

\* Truthiness of a JavaScript value
Truthy(x) ==
    CASE x.t = "undefined" -> FALSE
      [] x.t = "null" -> FALSE
      [] x.t = "string" -> x.v # <<>>
      [] x.t = "number" -> x.v # <<"0">>
      [] x.t = "boolean" -> x.v = <<"true">>
      [] OTHER -> TRUE

\* `${x}` in a template literal
Interpolate(x) ==
    CASE x.t = "undefined" -> <<"undefined">>
      [] x.t = "null" -> <<"null">>
      [] x.t = "object" -> <<"[object Object]">>
      [] OTHER -> x.v

----------------------------------------------------------------------------
(* The two plugins and the hooks a plugin can register *)

Main == "BeadsPlugin"
Guard == "BeadsGuardPlugin"
Plugins == {Main, Guard}

HookEvent == "event"
HookBefore == "tool.execute.before"
HookAfter == "tool.execute.after"
Hooks == {HookEvent, HookBefore, HookAfter}

----------------------------------------------------------------------------
(* Literals of the source *)

\* The reminder text.  The two source files hold the same text except for the
\* arrow characters, which src/src/index.ts stores double-encoded.
BEADS_CONTEXT(p) ==
    IF p = Main
    THEN <<"<system-reminder> ## Issue Tracking with Beads ... (open a-circumflex-dagger-right-quote in_progress ...) ... </system-reminder>">>
    ELSE <<"<system-reminder> ## Issue Tracking with Beads ... (open rightwards-arrow in_progress ...) ... </system-reminder>">>

INJECT_TOAST == <<"Beads detected - use bd_* tools for task management">>

TODOWRITE_WARNING(p) ==
    IF p = Main
    THEN <<"This project uses beads for issue tracking. Consider using bd_create instead of todowrite.">>
    ELSE <<"This project uses beads for issue tracking. Consider using bd_create instead of todowrite for persistent task management.">>

\* The suffix the after-execute hook appends (the emoji is double-encoded in
\* src/src/index.ts)
TIP(p) ==
    IF p = Main
    THEN <<"\n\n(double-encoded light bulb) Tip: This project uses beads for issue tracking. Consider using bd_create for persistent task management.">>
    ELSE <<"\n\n(light bulb) Tip: This project uses beads for issue tracking. Consider using bd_create for persistent task management.">>

ERROR_MARKER == <<"E", "r", "r", "o", "r", ":">>

BD_PREFIX == <<"b", "d", "_">>

\* Longest error text shown in a toast
ERROR_MAX == 100

\* Longest epic title shown in a toast
TITLE_MAX == 30

SESSION_CREATED == Str(<<"session.created">>)

\* Tool names, as the strings the host passes in input.tool
todowrite == <<"t", "o", "d", "o", "w", "r", "i", "t", "e">>
bash == <<"b", "a", "s", "h">>
bd_list == <<"b", "d", "_", "l", "i", "s", "t">>
bd_show == <<"b", "d", "_", "s", "h", "o", "w">>
bd_create == <<"b", "d", "_", "c", "r", "e", "a", "t", "e">>
bd_update == <<"b", "d", "_", "u", "p", "d", "a", "t", "e">>
bd_close == <<"b", "d", "_", "c", "l", "o", "s", "e">>
bd_reopen == <<"b", "d", "_", "r", "e", "o", "p", "e", "n">>
bd_delete_issue == <<"b", "d", "_", "d", "e", "l", "e", "t", "e", "_", "i", "s", "s", "u", "e">>
bd_ready == <<"b", "d", "_", "r", "e", "a", "d", "y">>
bd_blocked == <<"b", "d", "_", "b", "l", "o", "c", "k", "e", "d">>
bd_search == <<"b", "d", "_", "s", "e", "a", "r", "c", "h">>
bd_count == <<"b", "d", "_", "c", "o", "u", "n", "t">>
bd_stale == <<"b", "d", "_", "s", "t", "a", "l", "e">>
bd_comment == <<"b", "d", "_", "c", "o", "m", "m", "e", "n", "t">>
bd_comments == <<"b", "d", "_", "c", "o", "m", "m", "e", "n", "t", "s">>
bd_label_add == <<"b", "d", "_", "l", "a", "b", "e", "l", "_", "a", "d", "d">>
bd_label_remove == <<"b", "d", "_", "l", "a", "b", "e", "l", "_", "r", "e", "m", "o", "v", "e">>
bd_labels == <<"b", "d", "_", "l", "a", "b", "e", "l", "s">>
bd_dep_add == <<"b", "d", "_", "d", "e", "p", "_", "a", "d", "d">>
bd_dep_remove == <<"b", "d", "_", "d", "e", "p", "_", "r", "e", "m", "o", "v", "e">>
bd_deps == <<"b", "d", "_", "d", "e", "p", "s">>
bd_epic_create == <<"b", "d", "_", "e", "p", "i", "c", "_", "c", "r", "e", "a", "t", "e">>
bd_epics == <<"b", "d", "_", "e", "p", "i", "c", "s">>
bd_epic_show == <<"b", "d", "_", "e", "p", "i", "c", "_", "s", "h", "o", "w">>
bd_status == <<"b", "d", "_", "s", "t", "a", "t", "u", "s">>
bd_stats == <<"b", "d", "_", "s", "t", "a", "t", "s">>
bd_sync == <<"b", "d", "_", "s", "y", "n", "c">>
bd_info == <<"b", "d", "_", "i", "n", "f", "o">>
bd_validate == <<"b", "d", "_", "v", "a", "l", "i", "d", "a", "t", "e">>
bd_doctor == <<"b", "d", "_", "d", "o", "c", "t", "o", "r">>
bd_templates == <<"b", "d", "_", "t", "e", "m", "p", "l", "a", "t", "e", "s">>
bd_create_from_template == <<"b", "d", "_", "c", "r", "e", "a", "t", "e", "_", "f", "r", "o", "m", "_", "t", "e", "m", "p", "l", "a", "t", "e">>
bd_cleanup == <<"b", "d", "_", "c", "l", "e", "a", "n", "u", "p">>
bd_compact == <<"b", "d", "_", "c", "o", "m", "p", "a", "c", "t">>
bd_duplicates == <<"b", "d", "_", "d", "u", "p", "l", "i", "c", "a", "t", "e", "s">>
bd_repair_deps == <<"b", "d", "_", "r", "e", "p", "a", "i", "r", "_", "d", "e", "p", "s">>
bd_prime == <<"b", "d", "_", "p", "r", "i", "m", "e">>

\* Session ids, tool names and project paths the host uses in this model.
abc == <<"a", "b", "c">>
xyz == <<"x", "y", "z">>
EmptyId == <<>>
SessionIds == {abc, xyz, EmptyId}

ProjectRoot == <<"/", "p", "r", "o", "j">>

----------------------------------------------------------------------------
(* State *)

VARIABLES
    loaded,           \* the plugins the host has loaded
    directory,        \* the `directory` the host hands to the plugins
    fs,               \* the filesystem: what is at each path that exists
    beadsExists,      \* per plugin: the presence flag computed at instantiation
    hooks,            \* per plugin: the hooks of the object the plugin returned
    injectedSessions, \* per plugin: the Set<string> of sessions already injected
    calls,            \* per plugin: the collaborator calls issued, with their settlement
    tasks,            \* handler invocations suspended at an await
    rejected,         \* per plugin: hooks of which an invocation rejected into the host
    ended,            \* the last tool-hook invocation that ended: the object it was given, before and after
    delivered,        \* per plugin: how often each kind of input was delivered (history)
    observed,         \* what the calls of the exported functions returned (history)
    n                 \* hook invocations made so far

vars == <<loaded, directory, fs, beadsExists, hooks, injectedSessions, calls, tasks,
          rejected, ended, delivered, observed, n>>

----------------------------------------------------------------------------
(* Toast configuration of the bd_ tools *)

HexChars == DigitChars \cup {"a", "b", "c", "d", "e", "f", "A", "B", "C", "D", "E", "F"}

\* result.match(/([a-f0-9]{6,})/i): the leftmost, longest run of at least six
\* hexadecimal characters, or Null
MatchHexRun(s) ==
    LET starts == {i \in 1..Len(s) : i + 5 <= Len(s) /\ \A j \in i..(i + 5) : s[j] \in HexChars}
    IN  IF starts = {} THEN Null
        ELSE LET i == CHOOSE a \in starts : \A b \in starts : a <= b
                 ends == {e \in (i + 5)..Len(s) : \A j \in i..e : s[j] \in HexChars}
                 e == CHOOSE a \in ends : \A b \in ends : b <= a
             IN  Str(SubSeq(s, i, e))

\* JSON.parse(text): [ok, value]; ok = FALSE stands for the SyntaxError it throws.
\* Exact for the JSON texts a command prints in this model: null, true, false,
\* unsigned integers, strings without escapes, {} and {"id":"..."}; every
\* other text is taken as not being JSON.
JSONParse(text) ==
    LET t == Trim(text)
        plain(x) == \A i \in 1..Len(x) : x[i] \notin {"\"", "\\"}
        idOpen == <<"{", "\"", "i", "d", "\"", ":", "\"">>
    IN  CASE t = <<"n", "u", "l", "l">> -> [ok |-> TRUE, value |-> Null]
          [] t = <<"t", "r", "u", "e">> -> [ok |-> TRUE, value |-> Bool(TRUE)]
          [] t = <<"f", "a", "l", "s", "e">> -> [ok |-> TRUE, value |-> Bool(FALSE)]
          [] /\ t # <<>>
             /\ \A i \in 1..Len(t) : t[i] \in DigitChars
             /\ (Len(t) > 1 => t[1] # "0") -> [ok |-> TRUE, value |-> Num(t)]
          [] /\ Len(t) >= 2
             /\ t[1] = "\"" /\ t[Len(t)] = "\""
             /\ plain(SubSeq(t, 2, Len(t) - 1)) ->
                [ok |-> TRUE, value |-> Str(SubSeq(t, 2, Len(t) - 1))]
          [] t = <<"{", "}">> -> [ok |-> TRUE, value |-> Obj(<<>>)]
          [] /\ Len(t) >= Len(idOpen) + 2
             /\ StartsWith(t, idOpen)
             /\ SubSeq(t, Len(t) - 1, Len(t)) = <<"\"", "}">>
             /\ plain(SubSeq(t, Len(idOpen) + 1, Len(t) - 2)) ->
                [ok |-> TRUE,
                 value |-> Obj([id |-> Str(SubSeq(t, Len(idOpen) + 1, Len(t) - 2))])]
          [] OTHER -> [ok |-> FALSE, value |-> Undefined]

\* Try to parse an issue id from the command output: a string, or Null
parseIssueId(result) ==
    LET parsed == JSONParse(result)
    IN  IF parsed.ok
        THEN IF /\ TypeOf(parsed.value) = "object" /\ parsed.value # Null
                /\ "id" \in DOMAIN parsed.value.v
                /\ TypeOf(parsed.value.v["id"]) = "string"
             THEN parsed.value.v["id"]
             ELSE Null
        ELSE MatchHexRun(result)

\* ids.split(",").filter((id) => id.trim()).length
countIds(ids) ==
    IF TypeOf(ids) # "string" THEN 0
    ELSE Len(SelectSeq(Split(ids.v, ","), LAMBDA id : Trim(id) # <<>>))

\* pluralize(count, singular) without the optional plural
pluralize(count, singular) ==
    IF count = 1 THEN singular ELSE singular \o <<"s">>

readOnlyTools ==
    {bd_list, bd_show, bd_search, bd_count, bd_stale, bd_comments, bd_labels,
     bd_deps, bd_epics, bd_epic_show, bd_status, bd_stats, bd_info, bd_templates,
     bd_duplicates, bd_ready, bd_blocked, bd_prime}

ToastConfig(message, variant) == [message |-> message, variant |-> variant]

\* `${count} ${pluralize(count, "issue")} <verb>`
CountMessage(args, verb) ==
    LET count == countIds(Get(args, "ids"))
    IN  NumberToString(count) \o <<" ">> \o pluralize(count, <<"issue">>) \o verb

\* `<prefix>${id ? `: ${id}` : ""}`
IdMessage(prefix, result) ==
    LET id == parseIssueId(result)
    IN  IF Truthy(id) THEN prefix \o <<": ">> \o id.v ELSE prefix

\* The arrow of the dependency messages, stored double-encoded in the source
ARROW == <<" (double-encoded rightwards arrow) ">>

\* Variant: a tool that is not read-only has a toast unless its result is empty
getToastConfig_unlessEmpty(tool, args, result) ==
    IF tool \in readOnlyTools \/ result = <<>> THEN Null ELSE ToastConfig(<<"Done">>, "success")

\* Variant: every tool has a toast
getToastConfig_always(tool, args, result) == ToastConfig(<<"Done">>, "success")

\* getToastConfig(tool, args, result): a toast configuration, or Null
getToastConfig(tool, args, result) ==
    IF tool \in readOnlyTools THEN Null
    ELSE CASE tool = bd_create ->
                ToastConfig(IdMessage(<<"Issue created">>, result), "success")
           [] tool = bd_update -> ToastConfig(CountMessage(args, <<" updated">>), "success")
           [] tool = bd_close -> ToastConfig(CountMessage(args, <<" closed">>), "success")
           [] tool = bd_reopen -> ToastConfig(CountMessage(args, <<" reopened">>), "success")
           [] tool = bd_delete_issue -> ToastConfig(CountMessage(args, <<" deleted">>), "success")
           [] tool = bd_comment ->
                ToastConfig(<<"Comment added to ">> \o Interpolate(Get(args, "id")), "success")
           [] tool = bd_label_add ->
                ToastConfig(<<"Label \"">> \o Interpolate(Get(args, "label"))
                            \o <<"\" added to ">> \o Interpolate(Get(args, "id")), "success")
           [] tool = bd_label_remove ->
                ToastConfig(<<"Label \"">> \o Interpolate(Get(args, "label"))
                            \o <<"\" removed from ">> \o Interpolate(Get(args, "id")), "success")
           [] tool = bd_dep_add ->
                ToastConfig(<<"Dependency added: ">> \o Interpolate(Get(args, "id"))
                            \o ARROW \o Interpolate(Get(args, "depends_on")), "success")
           [] tool = bd_dep_remove ->
                ToastConfig(<<"Dependency removed: ">> \o Interpolate(Get(args, "id"))
                            \o ARROW \o Interpolate(Get(args, "depends_on")), "success")
           [] tool = bd_epic_create ->
                LET title == IF TypeOf(Get(args, "title")) = "string"
                             THEN Get(args, "title").v ELSE <<>>
                    shortTitle == IF Len(title) > TITLE_MAX
                                  THEN SliceTo(title, TITLE_MAX) \o <<"...">> ELSE title
                IN  ToastConfig(<<"Epic created: ">> \o shortTitle, "success")
           [] tool = bd_sync -> ToastConfig(<<"Beads synced with remote">>, "info")
           [] tool = bd_validate -> ToastConfig(<<"Database validation complete">>, "info")
           [] tool = bd_doctor -> ToastConfig(<<"Health check complete">>, "info")
           [] tool = bd_create_from_template ->
                ToastConfig(IdMessage(<<"Issue created from template">>, result), "success")
           [] tool = bd_cleanup -> ToastConfig(<<"Cleanup completed">>, "info")
           [] tool = bd_compact -> ToastConfig(<<"Database compacted">>, "info")
           [] tool = bd_repair_deps ->
                ToastConfig(IF Truthy(Get(args, "fix"))
                            THEN <<"Dependencies repaired">>
                            ELSE <<"Dependency check complete">>, "info")
           [] OTHER -> Null

----------------------------------------------------------------------------
(* DirectoryProbe *)

\* What a call gives back: the value it returned, or the fact that it threw
Returned(value) == [ok |-> TRUE, value |-> value]
Threw == [ok |-> FALSE, value |-> FALSE]

\* What is at a path: a directory, or a file with its text (reading a file
\* that is not readable throws)
Dir == [kind |-> "dir", text |-> <<>>, readable |-> FALSE]
File(text, readable) == [kind |-> "file", text |-> text, readable |-> readable]

\* join(directory, name)
join(dir, name) == <<dir, name>>

\* join(directory, name, file)
join3(dir, name, file) == <<dir, name, file>>

\* existsSync(path)
existsSync(files, path) == path \in DOMAIN files

\* readFileSync(path, "utf-8")
readFileSync(files, path) ==
    IF path \in DOMAIN files /\ files[path].kind = "file" /\ files[path].readable
    THEN Returned(files[path].text)
    ELSE Threw

hasBeadsDirectory(files, dir) ==
    IF TypeOf(dir) # "string"
    THEN FALSE
    ELSE existsSync(files, join(dir.v, ".beads"))

\* Variant: the text is not trimmed
hasBeadsIssues_untrimmed(files, dir) ==
    IF TypeOf(dir) # "string" THEN Returned(FALSE)
    ELSE IF ~existsSync(files, join3(dir.v, ".beads", "issues.jsonl")) THEN Returned(FALSE)
    ELSE LET content == readFileSync(files, join3(dir.v, ".beads", "issues.jsonl"))
         IN  IF content.ok THEN Returned(Len(content.value) > 0) ELSE Returned(FALSE)

\* hasBeadsIssues(directory): what the call gives back
hasBeadsIssues(files, dir) ==
    IF TypeOf(dir) # "string" THEN Returned(FALSE)
    ELSE IF ~existsSync(files, join3(dir.v, ".beads", "issues.jsonl")) THEN Returned(FALSE)
    ELSE LET content == readFileSync(files, join3(dir.v, ".beads", "issues.jsonl"))
         IN  IF content.ok THEN Returned(Len(Trim(content.value)) > 0) ELSE Returned(FALSE)

----------------------------------------------------------------------------
(* Plugin instantiation: the presence flag and the hooks of the returned object *)

\* Variant: a directory that is not a string is logged, and the plugin goes on
BeadsPlugin_logsOnly(files, dir) ==
    [beadsExists |-> TypeOf(dir) = "string" /\ existsSync(files, join(dir.v, ".beads")),
     hooks |-> Hooks]

\* BeadsPlugin({ client, $, directory }): the presence flag and the hooks
BeadsPlugin(files, dir) ==
    IF TypeOf(dir) # "string"
    THEN [beadsExists |-> FALSE, hooks |-> {}]
    ELSE [beadsExists |-> existsSync(files, join(dir.v, ".beads")), hooks |-> Hooks]

BeadsGuardPlugin(files, dir) ==
    IF ~hasBeadsDirectory(files, dir)
    THEN [beadsExists |-> FALSE, hooks |-> {}]
    ELSE [beadsExists |-> TRUE, hooks |-> Hooks]

Instantiate(p, files, dir) ==
    IF p = Main THEN BeadsPlugin(files, dir) ELSE BeadsGuardPlugin(files, dir)

----------------------------------------------------------------------------
(* Inputs the host delivers *)

CreatedEvent(id) ==
    Obj([type |-> SESSION_CREATED,
         properties |-> Obj([info |-> Obj([id |-> id])])])

\* Events that do not have the session.created shape
MalformedEvents ==
    { Str(<<"session.created">>),
      Null,
      Undefined,
      Obj([type |-> Str(<<"session.idle">>),
           properties |-> Obj([info |-> Obj([id |-> Str(abc)])])]),
      Obj([properties |-> Obj([info |-> Obj([id |-> Str(abc)])])]),
      Obj([type |-> SESSION_CREATED]),
      Obj([type |-> SESSION_CREATED, properties |-> Null]),
      Obj([type |-> SESSION_CREATED, properties |-> Str(abc)]),
      Obj([type |-> SESSION_CREATED, properties |-> Obj([other |-> Str(abc)])]),
      Obj([type |-> SESSION_CREATED, properties |-> Obj([info |-> Null])]),
      Obj([type |-> SESSION_CREATED, properties |-> Obj([info |-> Str(abc)])]),
      Obj([type |-> SESSION_CREATED, properties |-> Obj([info |-> Obj([other |-> Str(abc)])])]),
      CreatedEvent(Num(<<"7">>)),
      CreatedEvent(Null),
      CreatedEvent(Obj([id |-> Str(abc)])) }

----------------------------------------------------------------------------
(* SessionGuard *)

\* Variant: the type of info.id is not checked
isSessionCreatedEvent_anyId(event) ==
    IF TypeOf(event) # "object" \/ event = Null THEN FALSE
    ELSE IF Get(event, "type") # SESSION_CREATED THEN FALSE
    ELSE IF TypeOf(Get(event, "properties")) # "object" \/ Get(event, "properties") = Null THEN FALSE
    ELSE IF TypeOf(Get(Get(event, "properties"), "info")) # "object"
            \/ Get(Get(event, "properties"), "info") = Null THEN FALSE
    ELSE Get(Get(Get(event, "properties"), "info"), "id") # Undefined

isSessionCreatedEvent(event) ==
    IF TypeOf(event) # "object" \/ event = Null THEN FALSE
    ELSE IF Get(event, "type") # SESSION_CREATED THEN FALSE
    ELSE IF TypeOf(Get(event, "properties")) # "object" \/ Get(event, "properties") = Null THEN FALSE
    ELSE IF TypeOf(Get(Get(event, "properties"), "info")) # "object"
            \/ Get(Get(event, "properties"), "info") = Null THEN FALSE
    ELSE TypeOf(Get(Get(Get(event, "properties"), "info"), "id")) = "string"

\* A collaborator call as the host sees it.  hook and subject record the handler
\* invocation that issued it (the session id or the tool name it was handling).
PromptCall(p, sessionId) ==
    [op |-> "session.prompt", id |-> sessionId, noReply |-> TRUE,
     message |-> BEADS_CONTEXT(p), variant |-> "none", state |-> "pending",
     hook |-> HookEvent, subject |-> sessionId]

ToastCall(message, variant, hook, subject) ==
    [op |-> "tui.showToast", id |-> <<>>, noReply |-> FALSE,
     message |-> message, variant |-> variant, state |-> "pending",
     hook |-> hook, subject |-> subject]

\* A handler invocation suspended at `await`, waiting for the pending call `call`;
\* output is the object of the hook (its input or its output object) it holds.
Task(p, hook, pc, call, subject, output) ==
    [plugin |-> p, hook |-> hook, pc |-> pc, call |-> call,
     subject |-> subject, output |-> output]

\* The calls of a plugin and the suspended invocations are kept as bags: the
\* host's view of which calls were made and how each was settled.
Issue(bag, call) == bag (+) SetToBag({call})

Settle(bag, call, ok) ==
    (bag (-) SetToBag({call}))
        (+) SetToBag({[call EXCEPT !.state = IF ok THEN "resolved" ELSE "rejected"]})

Suspend(bag, task) == bag (+) SetToBag({task})

End(bag, task) == bag (-) SetToBag({task})

\* Variant: the duplicate check never finds the session
AlreadyInjected_never(p, sessionId) == FALSE

\* Variant: one set for the process, shared by the plugin instances
AlreadyInjected_shared(p, sessionId) ==
    \E q \in Plugins : sessionId \in injectedSessions[q]

\* injectedSessions.has(sessionId)
AlreadyInjected(p, sessionId) == sessionId \in injectedSessions[p]

\* Variant: the session is not added
MarkInjected_forgotten(set, sessionId) == set

\* injectedSessions.add(sessionId)
MarkInjected(set, sessionId) == set \cup {sessionId}

\* Variant: the prompt is sent and the handler suspends before the session is marked
InjectContext_unmarked(p, sessionId) ==
    IF sessionId \in injectedSessions[p]
    THEN UNCHANGED <<injectedSessions, calls, tasks>>
    ELSE /\ UNCHANGED injectedSessions
         /\ calls' = [calls EXCEPT ![p] = Issue(@, PromptCall(p, sessionId))]
         /\ tasks' = Suspend(tasks,
                Task(p, HookEvent, "prompt", PromptCall(p, sessionId), sessionId, Undefined))

\* Variant: the handler waits its turn: it does nothing while another
\* invocation of the plugin is suspended
InjectContext_serialized(p, sessionId) ==
    IF sessionId \in injectedSessions[p] \/ \E t \in BagToSet(tasks) : t.plugin = p
    THEN UNCHANGED <<injectedSessions, calls, tasks>>
    ELSE /\ injectedSessions' = [injectedSessions EXCEPT ![p] = @ \cup {sessionId}]
         /\ calls' = [calls EXCEPT ![p] = Issue(@, PromptCall(p, sessionId))]
         /\ tasks' = Suspend(tasks,
                Task(p, HookEvent, "prompt", PromptCall(p, sessionId), sessionId, Undefined))

\* Variant: the toast is shown first, and the message is not sent
InjectContext_toastFirst(p, sessionId) ==
    IF sessionId \in injectedSessions[p]
    THEN UNCHANGED <<injectedSessions, calls, tasks>>
    ELSE LET toast == ToastCall(INJECT_TOAST, "info", HookEvent, sessionId)
         IN  /\ injectedSessions' = [injectedSessions EXCEPT ![p] = @ \cup {sessionId}]
             /\ calls' = [calls EXCEPT ![p] = Issue(@, toast)]
             /\ tasks' = Suspend(tasks, Task(p, HookEvent, "toast", toast, sessionId, Undefined))

\* The part of the event handler that runs for a validated session.created
\* event, up to the first await.
InjectContext(p, sessionId) ==
    IF AlreadyInjected(p, sessionId)
    THEN UNCHANGED <<injectedSessions, calls, tasks>>
    ELSE /\ injectedSessions' =
                [injectedSessions EXCEPT ![p] = MarkInjected(@, sessionId)]
         /\ calls' = [calls EXCEPT ![p] = Issue(@, PromptCall(p, sessionId))]
         /\ tasks' = Suspend(tasks,
                Task(p, HookEvent, "prompt", PromptCall(p, sessionId), sessionId, Undefined))

\* Variant: the handler does not look at the presence flag
BeadsPlugin_event_unguarded(event) ==
    /\ IF isSessionCreatedEvent(event)
       THEN InjectContext(Main, Get(Get(Get(event, "properties"), "info"), "id").v)
       ELSE UNCHANGED <<injectedSessions, calls, tasks>>
    /\ UNCHANGED <<rejected, ended>>

\* BeadsPlugin's event handler, up to its first await or its return
BeadsPlugin_event(event) ==
    /\ IF ~beadsExists[Main]
       THEN UNCHANGED <<injectedSessions, calls, tasks>>
       ELSE IF isSessionCreatedEvent(event)
            THEN InjectContext(Main, Get(Get(Get(event, "properties"), "info"), "id").v)
            ELSE UNCHANGED <<injectedSessions, calls, tasks>>
    /\ UNCHANGED <<rejected, ended>>

\* BeadsGuardPlugin's event handler, up to its first await or its return
BeadsGuardPlugin_event(event) ==
    /\ IF isSessionCreatedEvent(event)
       THEN InjectContext(Guard, Get(Get(Get(event, "properties"), "info"), "id").v)
       ELSE UNCHANGED <<injectedSessions, calls, tasks>>
    /\ UNCHANGED <<rejected, ended>>

\* Variant: the catch block takes the session out of the set again
ResumeAfterPrompt_unmark(t, ok) ==
    LET p == t.plugin
        toast == ToastCall(INJECT_TOAST, "info", HookEvent, t.subject)
    IN  /\ IF ok
           THEN /\ calls' = [calls EXCEPT ![p] = Issue(Settle(@, t.call, ok), toast)]
                /\ tasks' = Suspend(End(tasks, t),
                        Task(p, HookEvent, "toast", toast, t.subject, Undefined))
                /\ UNCHANGED injectedSessions
           ELSE /\ calls' = [calls EXCEPT ![p] = Settle(@, t.call, ok)]
                /\ tasks' = End(tasks, t)
                /\ injectedSessions' = [injectedSessions EXCEPT ![p] = @ \ {t.subject}]
        /\ UNCHANGED <<rejected, ended>>

\* Variant: the catch block sends the message again, once
ResumeAfterPrompt_retry(t, ok) ==
    LET p == t.plugin
        toast == ToastCall(INJECT_TOAST, "info", HookEvent, t.subject)
        again == \A c \in BagToSet(calls[p]) : c.state # "rejected"
    IN  /\ IF ok
           THEN /\ calls' = [calls EXCEPT ![p] = Issue(Settle(@, t.call, ok), toast)]
                /\ tasks' = Suspend(End(tasks, t),
                        Task(p, HookEvent, "toast", toast, t.subject, Undefined))
           ELSE IF again
           THEN /\ calls' = [calls EXCEPT ![p] = Issue(Settle(@, t.call, ok), t.call)]
                /\ UNCHANGED tasks
           ELSE /\ calls' = [calls EXCEPT ![p] = Settle(@, t.call, ok)]
                /\ tasks' = End(tasks, t)
        /\ UNCHANGED <<injectedSessions, rejected, ended>>

\* Variant: the toast is shown whether the message was sent or not
ResumeAfterPrompt_toastAnyway(t, ok) ==
    LET p == t.plugin
        toast == ToastCall(INJECT_TOAST, "info", HookEvent, t.subject)
    IN  /\ calls' = [calls EXCEPT ![p] = Issue(Settle(@, t.call, ok), toast)]
        /\ tasks' = Suspend(End(tasks, t),
                Task(p, HookEvent, "toast", toast, t.subject, Undefined))
        /\ UNCHANGED <<injectedSessions, rejected, ended>>

\* The event handler resumes after `await client.session.prompt(...)`:
\* on success it shows the toast, on failure the catch block ends the handler.
ResumeAfterPrompt(t, ok) ==
    LET p == t.plugin
        toast == ToastCall(INJECT_TOAST, "info", HookEvent, t.subject)
    IN  /\ IF ok
           THEN /\ calls' = [calls EXCEPT ![p] = Issue(Settle(@, t.call, ok), toast)]
                /\ tasks' = Suspend(End(tasks, t),
                        Task(p, HookEvent, "toast", toast, t.subject, Undefined))
           ELSE /\ calls' = [calls EXCEPT ![p] = Settle(@, t.call, ok)]
                /\ tasks' = End(tasks, t)
        /\ UNCHANGED <<injectedSessions, rejected, ended>>

\* The object a hook invocation was given (its input or its output object) as
\* the invocation leaves it when it ends
Finished(p, hook, tool, input, output) ==
    [plugin |-> p, hook |-> hook, tool |-> tool, input |-> input, output |-> output]

\* Variant: the catch block throws the error again
ResumeAfterGuardedToast_rethrow(t, ok) ==
    /\ calls' = [calls EXCEPT ![t.plugin] = Settle(@, t.call, ok)]
    /\ tasks' = End(tasks, t)
    /\ rejected' = IF ok THEN rejected ELSE [rejected EXCEPT ![t.plugin] = @ \cup {t.hook}]
    /\ ended' = IF t.hook = HookBefore
                THEN Finished(t.plugin, HookBefore, t.subject, t.output, t.output)
                ELSE ended
    /\ UNCHANGED injectedSessions

\* A handler resumes after `await client.tui.showToast(...)` inside try/catch:
\* it returns either way.  The before-execute handler has assigned nothing to
\* its input.
ResumeAfterGuardedToast(t, ok) ==
    /\ calls' = [calls EXCEPT ![t.plugin] = Settle(@, t.call, ok)]
    /\ tasks' = End(tasks, t)
    /\ ended' = IF t.hook = HookBefore
                THEN Finished(t.plugin, HookBefore, t.subject, t.output, t.output)
                ELSE ended
    /\ UNCHANGED <<injectedSessions, rejected>>

----------------------------------------------------------------------------
(* ToolInterceptor: before-execute (the same code in both plugins) *)

\* Variant: the warning is shown for every tool
ToolExecuteBefore_anyTool(p, tool, args) ==
    /\ IF beadsExists[p]
       THEN LET toast == ToastCall(TODOWRITE_WARNING(p), "warning", HookBefore, tool)
            IN  /\ calls' = [calls EXCEPT ![p] = Issue(@, toast)]
                /\ tasks' = Suspend(tasks, Task(p, HookBefore, "toast", toast, tool, args))
                /\ UNCHANGED ended
       ELSE /\ ended' = Finished(p, HookBefore, tool, args, args)
            /\ UNCHANGED <<calls, tasks>>
    /\ UNCHANGED <<injectedSessions, rejected>>

\* Variant: the handler looks for the tracker directory again
ToolExecuteBefore_reprobe(p, tool, args) ==
    /\ IF tool = todowrite /\ existsSync(fs, join(directory.v, ".beads"))
       THEN LET toast == ToastCall(TODOWRITE_WARNING(p), "warning", HookBefore, tool)
            IN  /\ calls' = [calls EXCEPT ![p] = Issue(@, toast)]
                /\ tasks' = Suspend(tasks, Task(p, HookBefore, "toast", toast, tool, args))
                /\ UNCHANGED ended
       ELSE /\ ended' = Finished(p, HookBefore, tool, args, args)
            /\ UNCHANGED <<calls, tasks>>
    /\ UNCHANGED <<injectedSessions, rejected>>

\* The tool.execute.before handler, up to its await or its return.
\* The handler reads input.tool only; args is the rest of its input, which
\* the suspended invocation keeps holding.
ToolExecuteBefore(p, tool, args) ==
    /\ IF tool = todowrite /\ beadsExists[p]
       THEN LET toast == ToastCall(TODOWRITE_WARNING(p), "warning", HookBefore, tool)
            IN  /\ calls' = [calls EXCEPT ![p] = Issue(@, toast)]
                /\ tasks' = Suspend(tasks, Task(p, HookBefore, "toast", toast, tool, args))
                /\ UNCHANGED ended
       ELSE /\ ended' = Finished(p, HookBefore, tool, args, args)
            /\ UNCHANGED <<calls, tasks>>
    /\ UNCHANGED <<injectedSessions, rejected>>

----------------------------------------------------------------------------
(* ToolInterceptor: after-execute *)

\* Variant: the tip takes the place of the text
AppendTip_replace(p, tool, output) ==
    IF tool = todowrite /\ beadsExists[p]
    THEN IF TypeOf(Get(output, "output")) = "string"
         THEN [output EXCEPT !.v["output"] = Str(TIP(p))]
         ELSE output
    ELSE output

\* Variant: the tip is appended to the text output of any tool
AppendTip_anyTool(p, tool, output) ==
    IF beadsExists[p]
    THEN IF TypeOf(Get(output, "output")) = "string"
         THEN [output EXCEPT !.v["output"] = Str(@.v \o TIP(p))]
         ELSE output
    ELSE output

\* "After todowrite, remind about beads": the output object the block leaves
AppendTip(p, tool, output) ==
    IF tool = todowrite /\ beadsExists[p]
    THEN IF TypeOf(Get(output, "output")) = "string"
         THEN [output EXCEPT !.v["output"] = Str(@.v \o TIP(p))]
         ELSE output
    ELSE output

\* BeadsGuardPlugin's tool.execute.after handler (it has no await)
BeadsGuardPlugin_after(tool, output) ==
    /\ ended' = Finished(Guard, HookAfter, tool, output, AppendTip(Guard, tool, output))
    /\ UNCHANGED <<injectedSessions, calls, tasks, rejected>>

\* metadata?.args ?? {}
MetadataArgs(output) ==
    LET metadata == Get(output, "metadata")
        args == IF metadata \in {Undefined, Null} THEN Undefined ELSE Get(metadata, "args")
    IN  IF args \in {Undefined, Null} THEN Obj(<<>>) ELSE args

\* Variant: the whole error text is shown
ErrorMessage_whole(result) == result

\* result.slice(0, 100)
ErrorMessage(result) == SliceTo(result, ERROR_MAX)

\* BeadsPlugin's tool.execute.after handler, up to its first await or its return
BeadsPlugin_after(tool, output) ==
    LET result == IF TypeOf(Get(output, "output")) = "string"
                  THEN Get(output, "output").v ELSE <<>>
        toastConfig == getToastConfig(tool, MetadataArgs(output), result)
        await(pc, message, variant) ==
            /\ calls' = [calls EXCEPT ![Main] =
                    Issue(@, ToastCall(message, variant, HookAfter, tool))]
            /\ tasks' = Suspend(tasks,
                    Task(Main, HookAfter, pc, ToastCall(message, variant, HookAfter, tool),
                         tool, output))
            /\ UNCHANGED ended
    IN  /\ IF StartsWith(tool, BD_PREFIX) /\ StartsWith(result, ERROR_MARKER)
           THEN await("errorToast", ErrorMessage(result), "error")
           ELSE IF StartsWith(tool, BD_PREFIX) /\ toastConfig # Null
           THEN await("resultToast", toastConfig.message, toastConfig.variant)
           ELSE /\ ended' = Finished(Main, HookAfter, tool, output, AppendTip(Main, tool, output))
                /\ UNCHANGED <<calls, tasks>>
        /\ UNCHANGED <<injectedSessions, rejected>>

\* BeadsPlugin's after handler resumes after an `await client.tui.showToast(...)`,
\* which is not inside a try block: a rejection rejects the handler; after the
\* error toast the handler returns, after a result toast it goes on to the
\* todowrite block.
ResumeAfterToast(t, ok) ==
    /\ calls' = [calls EXCEPT ![Main] = Settle(@, t.call, ok)]
    /\ tasks' = End(tasks, t)
    /\ rejected' = IF ok THEN rejected ELSE [rejected EXCEPT ![Main] = @ \cup {HookAfter}]
    /\ ended' =
            IF ok /\ t.pc = "resultToast"
            THEN Finished(Main, HookAfter, t.subject, t.output, AppendTip(Main, t.subject, t.output))
            ELSE Finished(Main, HookAfter, t.subject, t.output, t.output)
    /\ UNCHANGED injectedSessions

----------------------------------------------------------------------------
(* The host *)

\* Tools whose invocations the host reports, and arguments they are called with
HostTools == {todowrite, bash, bd_create}

ToolArgs == {Obj(<<>>), Obj([todos |-> Str(abc)])}

\* Output objects the host hands to the after-execute hook
done == <<"d", "o", "n", "e">>

ErrorText == <<"E", "r", "r", "o", "r", ":", " ", "n", "o", " ", "d", "b">>

\* An error text longer than the longest text an error toast shows
LongErrorText == ErrorText \o [i \in 1..ERROR_MAX |-> "x"]

ToolOutputs ==
    {Obj([output |-> Str(done)]), Obj([output |-> Str(ErrorText)]), Obj([output |-> Undefined])}

\* What the host counts in `delivered`: session.created events per session id,
\* those of them that arrived after a call for the session had been rejected,
\* events of another shape, before-execute events of todowrite, and per hook
\* the session.created and todowrite events that arrived while the tracker
\* directory was not as it was at instantiation
Retried == "session.created after a rejection"
Malformed == "event of another shape"
Stale == "event after the tracker directory changed"

DeliveryKeys ==
    {<<HookEvent, s>> : s \in SessionIds} \cup {<<Retried, s>> : s \in SessionIds}
        \cup {<<Malformed, <<>>>>, <<HookBefore, todowrite>>}
        \cup {<<Stale, h>> : h \in Hooks}

\* The tracker directory is not as plugin p found it at instantiation
Changed(p) ==
    /\ TypeOf(directory) = "string"
    /\ existsSync(fs, join(directory.v, ".beads")) # beadsExists[p]

\* A call of plugin p's event handler for session s has been rejected
RejectedFor(p, s) ==
    \E c \in BagToSet(calls[p]) :
        c.hook = HookEvent /\ c.subject = s /\ c.state = "rejected"

Count(p, key) == delivered[p][key]

Counted(p, keys) ==
    delivered' = [delivered EXCEPT ![p] = [k \in DeliveryKeys |-> IF k \in keys THEN @[k] + 1 ELSE @[k]]]

\* What the host holds for plugin p after loading: the plugin's result when it
\* is loaded, nothing otherwise
Load(p, plugins, files, dir) ==
    IF p \in plugins THEN Instantiate(p, files, dir) ELSE [beadsExists |-> FALSE, hooks |-> {}]

\* The host's configurations: which plugin it loads
Configurations == {{Main}, {Guard}}

\* Filesystems: nothing under the project root, or the tracker directory
NoFiles == [path \in {} |-> Dir]

Tracker == [path \in {join(ProjectRoot, ".beads")} |-> Dir]

\* No exported function has been called
NotCalled == [exists |-> {}, hasRecords |-> {}, ran |-> {}, raised |-> FALSE, commands |-> {}]

Init ==
    /\ loaded \in Configurations
    /\ directory \in {Str(ProjectRoot), Undefined}
    /\ fs \in {NoFiles, Tracker}
    /\ observed = NotCalled
    /\ beadsExists = [p \in Plugins |-> Load(p, loaded, fs, directory).beadsExists]
    /\ hooks = [p \in Plugins |-> Load(p, loaded, fs, directory).hooks]
    /\ injectedSessions = [p \in Plugins |-> {}]
    /\ calls = [p \in Plugins |-> EmptyBag]
    /\ tasks = EmptyBag
    /\ rejected = [p \in Plugins |-> {}]
    /\ ended = Finished(Main, HookAfter, <<>>, Undefined, Undefined)
    /\ delivered = [p \in Plugins |-> [k \in DeliveryKeys |-> 0]]
    /\ n = 0

\* The host calls plugin p's event hook
Dispatch_event(p, event) ==
    /\ n < MaxEvents
    /\ HookEvent \in hooks[p]
    /\ n' = n + 1
    /\ IF p = Main THEN BeadsPlugin_event(event) ELSE BeadsGuardPlugin_event(event)
    /\ UNCHANGED <<loaded, directory, fs, beadsExists, hooks, observed>>

\* The host delivers a session.created event for session id s to plugin p
SessionCreated(p, s) ==
    /\ Dispatch_event(p, CreatedEvent(Str(s)))
    /\ Counted(p, {<<HookEvent, s>>}
                    \cup (IF RejectedFor(p, s) THEN {<<Retried, s>>} ELSE {})
                    \cup (IF Changed(p) THEN {<<Stale, HookEvent>>} ELSE {}))

\* The host delivers an event of another shape to plugin p
OtherEvent(p, event) ==
    /\ Dispatch_event(p, event)
    /\ Counted(p, {<<Malformed, <<>>>>})

\* The host calls plugin p's tool.execute.before hook
Dispatch_before(p, tool, args) ==
    /\ n < MaxEvents
    /\ HookBefore \in hooks[p]
    /\ n' = n + 1
    /\ ToolExecuteBefore(p, tool, args)
    /\ Counted(p, IF tool = todowrite
                   THEN {<<HookBefore, tool>>}
                            \cup (IF Changed(p) THEN {<<Stale, HookBefore>>} ELSE {})
                   ELSE {})
    /\ UNCHANGED <<loaded, directory, fs, beadsExists, hooks, observed>>

\* The host calls plugin p's tool.execute.after hook
Dispatch_after(p, tool, output) ==
    /\ n < MaxEvents
    /\ HookAfter \in hooks[p]
    /\ n' = n + 1
    /\ IF p = Main THEN BeadsPlugin_after(tool, output) ELSE BeadsGuardPlugin_after(tool, output)
    /\ Counted(p, IF tool = todowrite /\ Changed(p) THEN {<<Stale, HookAfter>>} ELSE {})
    /\ UNCHANGED <<loaded, directory, fs, beadsExists, hooks, observed>>

\* The host settles a pending session.prompt call
SettlePrompt(t, ok) ==
    /\ t.pc = "prompt"
    /\ ResumeAfterPrompt(t, ok)
    /\ UNCHANGED <<loaded, directory, fs, beadsExists, hooks, observed, delivered, n>>

\* The host settles a pending showToast call made inside try/catch
SettleGuardedToast(t, ok) ==
    /\ t.pc = "toast"
    /\ ResumeAfterGuardedToast(t, ok)
    /\ UNCHANGED <<loaded, directory, fs, beadsExists, hooks, observed, delivered, n>>

\* The host settles a pending showToast call of BeadsPlugin's after-execute handler
SettleToast(t, ok) ==
    /\ t.pc \in {"errorToast", "resultToast"}
    /\ ResumeAfterToast(t, ok)
    /\ UNCHANGED <<loaded, directory, fs, beadsExists, hooks, observed, delivered, n>>

Next ==
    \/ \E p \in Plugins, s \in SessionIds : SessionCreated(p, s)
    \/ \E p \in Plugins, e \in MalformedEvents : OtherEvent(p, e)
    \/ \E p \in Plugins, tool \in HostTools, args \in ToolArgs : Dispatch_before(p, tool, args)
    \/ \E t \in BagToSet(tasks), ok \in BOOLEAN : SettlePrompt(t, ok)
    \/ \E t \in BagToSet(tasks), ok \in BOOLEAN : SettleGuardedToast(t, ok)
    \/ \E p \in Plugins, tool \in HostTools, output \in ToolOutputs : Dispatch_after(p, tool, output)
    \/ \E t \in BagToSet(tasks), ok \in BOOLEAN : SettleToast(t, ok)

Spec == Init /\ [][Next]_vars

----------------------------------------------------------------------------
(* The passthrough tools and the command runner (src/src/tools.ts) *)

\* The tools createAllTools registers
RegisteredTools ==
    {bd_list, bd_show, bd_create, bd_update, bd_close, bd_reopen, bd_delete_issue,
     bd_ready, bd_blocked, bd_search, bd_count, bd_stale, bd_comment, bd_comments,
     bd_label_add, bd_label_remove, bd_labels, bd_dep_add, bd_dep_remove, bd_deps,
     bd_epic_create, bd_epics, bd_epic_show, bd_status, bd_stats, bd_sync, bd_info,
     bd_validate, bd_doctor, bd_templates, bd_create_from_template, bd_cleanup,
     bd_compact, bd_duplicates, bd_repair_deps, bd_prime}

\* The options each tool passes to runBd with its command
RunOptions(tool) ==
    CASE tool = bd_list -> Obj([successMessage |-> Str(<<"No issues found">>)])
      [] tool = bd_create -> Obj([successMessage |-> Str(<<"Issue created">>)])
      [] tool = bd_update -> Obj([successMessage |-> Str(<<"Issue(s) updated">>)])
      [] tool = bd_close -> Obj([successMessage |-> Str(<<"Issue(s) closed">>)])
      [] tool = bd_reopen -> Obj([successMessage |-> Str(<<"Issue(s) reopened">>)])
      [] tool = bd_delete_issue -> Obj([successMessage |-> Str(<<"Issue(s) deleted">>)])
      [] tool = bd_ready -> Obj([successMessage |-> Str(<<"No ready issues">>)])
      [] tool = bd_blocked -> Obj([successMessage |-> Str(<<"No blocked issues">>)])
      [] tool = bd_search -> Obj([successMessage |-> Str(<<"No matching issues">>)])
      [] tool = bd_stale -> Obj([successMessage |-> Str(<<"No stale issues">>)])
      [] tool = bd_comment -> Obj([successMessage |-> Str(<<"Comment added">>)])
      [] tool = bd_comments -> Obj([successMessage |-> Str(<<"No comments">>)])
      [] tool = bd_label_add -> Obj([successMessage |-> Str(<<"Label added">>)])
      [] tool = bd_label_remove -> Obj([successMessage |-> Str(<<"Label removed">>)])
      [] tool = bd_labels -> Obj([successMessage |-> Str(<<"No labels">>)])
      [] tool = bd_dep_add -> Obj([successMessage |-> Str(<<"Dependency added">>)])
      [] tool = bd_dep_remove -> Obj([successMessage |-> Str(<<"Dependency removed">>)])
      [] tool = bd_deps -> Obj([successMessage |-> Str(<<"No dependencies">>)])
      [] tool = bd_epic_create -> Obj([successMessage |-> Str(<<"Epic created">>)])
      [] tool = bd_epics -> Obj([successMessage |-> Str(<<"No epics">>)])
      [] tool = bd_sync -> Obj([successMessage |-> Str(<<"Sync completed">>)])
      [] tool = bd_templates -> Obj([successMessage |-> Str(<<"No templates">>)])
      [] tool = bd_create_from_template -> Obj([successMessage |-> Str(<<"Issue created from template">>)])
      [] tool = bd_cleanup -> Obj([successMessage |-> Str(<<"Cleanup completed">>)])
      [] tool = bd_compact -> Obj([successMessage |-> Str(<<"Compact completed">>)])
      [] tool = bd_duplicates -> Obj([successMessage |-> Str(<<"No duplicates found">>)])
      [] tool = bd_repair_deps -> Obj([successMessage |-> Str(<<"No orphaned dependencies">>)])
      [] OTHER -> Obj(<<>>)

\* A JSON text with an id, as bd prints it for a created issue
IdJson == <<"{", "\"", "i", "d", "\"", ":", "\"", "b", "d", "-", "1", "\"", "}">>

\* The shell throwing an error with a message
Raise(message) == [ok |-> FALSE, value |-> message]

\* Variant: the success message is preferred to the command's text
runBd_messageFirst(outcome, options) ==
    IF outcome.ok
    THEN IF Truthy(Get(options, "successMessage")) THEN Get(options, "successMessage").v
         ELSE outcome.value
    ELSE ERROR_MARKER \o <<" ">> \o outcome.value

\* Variant: the catch block returns the message of the error as it is
runBd_unmarked(outcome, options) ==
    IF outcome.ok
    THEN IF outcome.value # <<>> THEN outcome.value
         ELSE IF Truthy(Get(options, "successMessage")) THEN Get(options, "successMessage").v
         ELSE <<>>
    ELSE outcome.value

\* Variant: a runner that keeps the error of a call that raised
runBd_poisoned(outcome, options) ==
    IF outcome.ok /\ ~observed.raised
    THEN IF outcome.value # <<>> THEN outcome.value
         ELSE IF Truthy(Get(options, "successMessage")) THEN Get(options, "successMessage").v
         ELSE <<>>
    ELSE ERROR_MARKER \o <<" ">> \o (IF outcome.ok THEN <<"spawn failed">> ELSE outcome.value)

\* The runner createBdRunner returns, applied to the outcome of
\* shell`sh -c ${cmdString}`.cwd(cwd).nothrow().text(): the text the command
\* wrote, or an error thrown
runBd(outcome, options) ==
    IF outcome.ok
    THEN IF outcome.value # <<>> THEN outcome.value
         ELSE IF Truthy(Get(options, "successMessage")) THEN Get(options, "successMessage").v
         ELSE <<>>
    ELSE ERROR_MARKER \o <<" ">> \o outcome.value

\* execute(args) of a tool: what the tool returns to the host
Execute(tool, outcome) ==
    IF tool = bd_count
    THEN Trim(runBd(outcome, RunOptions(tool)))
    ELSE runBd(outcome, RunOptions(tool))

\* What a command writes, and an error of the shell
Stdouts ==
    {<<>>, done, <<"5", "\n">>, <<" ", "\n">>, IdJson, ErrorText}

ShellOutcomes ==
    {Returned(text) : text \in Stdouts} \cup {Raise(<<"spawn failed">>), Raise(<<>>)}

\* The host calls a tool BeadsPlugin registered; the command ends with outcome.
\* observed.ran is the last call, observed.raised whether the shell has raised
\* in a call before it.
RunTool(tool, outcome) ==
    /\ Hooks \subseteq hooks[Main]
    /\ observed' = [observed EXCEPT
            !.ran = {[tool |-> tool, outcome |-> outcome, result |-> Execute(tool, outcome),
                      afterFailure |-> observed.raised]},
            !.raised = @ \/ ~outcome.ok]
    /\ UNCHANGED <<loaded, directory, fs, beadsExists, hooks, injectedSessions, calls,
                   tasks, rejected, ended, delivered, n>>

RunnerNext == \E tool \in RegisteredTools, outcome \in ShellOutcomes : RunTool(tool, outcome)

RunnerSpec == Init /\ [][RunnerNext]_vars

----------------------------------------------------------------------------
(* The command string of a tool call, and what `sh -c` makes of it *)

\* arg.includes(ch)
Includes(s, ch) == \E i \in 1..Len(s) : s[i] = ch

\* arg.replace(/"/g, '\\"')
RECURSIVE EscapeQuotes(_)
EscapeQuotes(s) ==
    IF s = <<>> THEN <<>>
    ELSE IF Head(s) = "\"" THEN <<"\\", "\"">> \o EscapeQuotes(Tail(s))
    ELSE <<Head(s)>> \o EscapeQuotes(Tail(s))

\* Variant: every argument is put between single quotes, a single quote in it
\* written as '\''
RECURSIVE EscapeSingleQuotes(_)
EscapeSingleQuotes(s) ==
    IF s = <<>> THEN <<>>
    ELSE IF Head(s) = "'" THEN <<"'", "\\", "'", "'">> \o EscapeSingleQuotes(Tail(s))
    ELSE <<Head(s)>> \o EscapeSingleQuotes(Tail(s))

cmdArg_quoted(arg) == <<"'">> \o EscapeSingleQuotes(arg) \o <<"'">>

\* The function createBdRunner maps over args
cmdArg(arg) ==
    IF Includes(arg, " ") \/ Includes(arg, "\"") \/ Includes(arg, "'")
    THEN <<"\"">> \o EscapeQuotes(arg) \o <<"\"">>
    ELSE arg

\* parts.join(sep)
RECURSIVE Join(_, _)
Join(parts, sep) ==
    IF parts = <<>> THEN <<>>
    ELSE IF Len(parts) = 1 THEN parts[1]
    ELSE parts[1] \o sep \o Join(Tail(parts), sep)

\* ["bd", ...cmdArgs].join(" ")
cmdString(args) ==
    Join(<< <<"bd">> >> \o [i \in 1..Len(args) |-> cmdArg(args[i])], <<" ">>)

\* Characters that separate words, and characters that end the command or
\* redirect it, when they are not quoted
Blanks == {" ", "\t"}

ControlOperators == {";", "\n", "&", "|", "<", ">", "(", ")"}

\* The words `sh -c text` makes of the text: kind "words" with the command
\* name and its arguments, "syntax error" when a quote is not closed, and
\* "interpreted" when a character outside quotes ends the command, with the
\* words up to it.  mode is the quoting the text is in.
RECURSIVE ShellParse(_, _, _, _, _)
ShellParse(rest, mode, cur, inWord, words) ==
    LET sofar == IF inWord THEN Append(words, cur) ELSE words
    IN  IF rest = <<>>
        THEN IF mode = "plain" THEN [kind |-> "words", words |-> sofar]
             ELSE [kind |-> "syntax error", words |-> <<>>]
        ELSE LET c == Head(rest)
                 r == Tail(rest)
             IN  CASE mode = "plain" ->
                        IF c \in Blanks THEN ShellParse(r, "plain", <<>>, FALSE, sofar)
                        ELSE IF c = "\\"
                        THEN IF r = <<>> THEN ShellParse(r, "plain", Append(cur, c), TRUE, words)
                             ELSE ShellParse(Tail(r), "plain", Append(cur, Head(r)), TRUE, words)
                        ELSE IF c = "'" THEN ShellParse(r, "single", cur, TRUE, words)
                        ELSE IF c = "\"" THEN ShellParse(r, "double", cur, TRUE, words)
                        ELSE IF c \in ControlOperators
                        THEN [kind |-> "interpreted", words |-> sofar]
                        ELSE ShellParse(r, "plain", Append(cur, c), TRUE, words)
                   [] mode = "single" ->
                        IF c = "'" THEN ShellParse(r, "plain", cur, TRUE, words)
                        ELSE ShellParse(r, "single", Append(cur, c), TRUE, words)
                   [] OTHER ->
                        IF c = "\"" THEN ShellParse(r, "plain", cur, TRUE, words)
                        ELSE IF c = "\\" /\ r # <<>> /\ Head(r) \in {"\"", "\\", "$"}
                        THEN ShellParse(Tail(r), "double", Append(cur, Head(r)), TRUE, words)
                        ELSE ShellParse(r, "double", Append(cur, c), TRUE, words)

ShellWords(text) == ShellParse(text, "plain", <<>>, FALSE, <<>>)

\* args.ids.split(",").map((id) => id.trim())
SplitIds(ids) ==
    LET parts == Split(ids, ",")
    IN  [i \in 1..Len(parts) |-> Trim(parts[i])]

\* The tools that take a comma-separated list of issue ids
IdsTools == {bd_update, bd_close, bd_reopen, bd_delete_issue}

\* The argument vector a tool hands to runBd
Argv(tool, args) ==
    CASE tool = bd_update -> << <<"update">> >> \o SplitIds(Get(args, "ids").v)
      [] tool = bd_close -> << <<"close">> >> \o SplitIds(Get(args, "ids").v)
      [] tool = bd_reopen -> << <<"reopen">> >> \o SplitIds(Get(args, "ids").v)
      [] tool = bd_delete_issue ->
            << <<"delete">> >> \o SplitIds(Get(args, "ids").v) \o << <<"--force">> >>
      [] tool = bd_show -> << <<"show">>, Get(args, "id").v, <<"--json">> >>
      [] tool = bd_comment ->
            << <<"comment">>, Get(args, "id").v, <<"--body">>, Get(args, "body").v >>

\* The ids of the argument vector of one of the IdsTools
IdsOf(tool, argv) ==
    SubSeq(argv, 2, IF tool = bd_delete_issue THEN Len(argv) - 1 ELSE Len(argv))

\* The texts of at most MaxArgLen characters over an alphabet
Texts(alphabet) == UNION {[1..k -> alphabet] : k \in 0..MaxArgLen}

\* Characters of the ids argument, and of any other text argument
IdsChars == {"a", ",", " ", "\t"}

ArgChars == {"a", " ", "\"", "'", "\\", ";"}

\* The host calls a tool of BeadsPlugin with args, once in a run: the tool builds its
\* argument vector, the runner the command string that `sh -c` splits into
\* words, and the after-execute hook is given the args in metadata.args
RunCommand(tool, args) ==
    /\ Hooks \subseteq hooks[Main]
    /\ observed.commands = {}
    /\ observed' = [observed EXCEPT !.commands =
            {[tool |-> tool, args |-> args, argv |-> Argv(tool, args),
              shell |-> ShellWords(cmdString(Argv(tool, args))),
              toast |-> getToastConfig(tool, args, done)]}]
    /\ UNCHANGED <<loaded, directory, fs, beadsExists, hooks, injectedSessions, calls,
                   tasks, rejected, ended, delivered, n>>

CommandNext ==
    \/ \E tool \in IdsTools, ids \in Texts(IdsChars) : RunCommand(tool, Obj([ids |-> Str(ids)]))
    \/ \E id \in Texts(ArgChars) : RunCommand(bd_show, Obj([id |-> Str(id)]))
    \/ \E body \in Texts(ArgChars) :
            RunCommand(bd_comment, Obj([id |-> Str(<<"a">>), body |-> Str(body)]))

CommandSpec == Init /\ [][CommandNext]_vars

----------------------------------------------------------------------------
(* One tool call: the after-execute hook for every tool and result *)

\* The keys of getToastConfig's configs
NotifyingTools ==
    {bd_create, bd_update, bd_close, bd_reopen, bd_delete_issue, bd_comment,
     bd_label_add, bd_label_remove, bd_dep_add, bd_dep_remove, bd_epic_create,
     bd_sync, bd_validate, bd_doctor, bd_create_from_template, bd_cleanup,
     bd_compact, bd_repair_deps}

\* Tool names the host reports: the bd_ tools and two tools of the host
ToolNames == readOnlyTools \cup NotifyingTools \cup {todowrite, bash}

\* A text that has the letters of the error marker, not the marker
NearError == <<"E", "r", "r", "o", "r", " ", ":", " ", "0">>

\* An error text of exactly the length an error toast shows
FullErrorText == ErrorText \o [i \in 1..(ERROR_MAX - Len(ErrorText)) |-> "x"]

\* Results of a tool call: output.output
ToolResults ==
    {Str(done), Str(<<>>), Str(IdJson), Str(NearError), Str(ErrorText), Str(FullErrorText),
     Str(LongErrorText), Undefined}

\* The host reports the one tool call of the run to plugin p
ToolCall(p, tool, output) ==
    /\ n = 0
    /\ Dispatch_after(p, tool, output)

ToolNext ==
    \/ \E p \in Plugins, tool \in ToolNames, result \in ToolResults :
            ToolCall(p, tool, Obj([output |-> result]))
    \/ \E t \in BagToSet(tasks), ok \in BOOLEAN : SettleToast(t, ok)

ToolSpec == Init /\ [][ToolNext]_vars

----------------------------------------------------------------------------
(* The tracker directory is created or removed while the plugin runs *)

\* `bd init` in the project: the tracker directory appears
TrackerCreated ==
    /\ TypeOf(directory) = "string"
    /\ ~existsSync(fs, join(directory.v, ".beads"))
    /\ fs' = [path \in DOMAIN fs \cup {join(directory.v, ".beads")} |->
                IF path = join(directory.v, ".beads") THEN Dir ELSE fs[path]]
    /\ UNCHANGED <<loaded, directory, beadsExists, hooks, observed, injectedSessions,
                   calls, tasks, rejected, ended, delivered, n>>

\* The tracker directory is removed, with what is in it
TrackerRemoved ==
    /\ TypeOf(directory) = "string"
    /\ existsSync(fs, join(directory.v, ".beads"))
    /\ fs' = [path \in {q \in DOMAIN fs : q[1] # directory.v \/ q[2] # ".beads"} |-> fs[path]]
    /\ UNCHANGED <<loaded, directory, beadsExists, hooks, observed, injectedSessions,
                   calls, tasks, rejected, ended, delivered, n>>

\* The hooks with the events of the guard, and the tracker directory changing
FsNext ==
    \/ \E p \in Plugins, s \in {abc, xyz} : SessionCreated(p, s)
    \/ \E p \in Plugins : OtherEvent(p, Null)
    \/ \E p \in Plugins, tool \in {todowrite, bash} : Dispatch_before(p, tool, Obj(<<>>))
    \/ \E p \in Plugins, tool \in {todowrite, bd_create} :
            Dispatch_after(p, tool, Obj([output |-> Str(done)]))
    \/ \E t \in BagToSet(tasks), ok \in BOOLEAN : SettlePrompt(t, ok)
    \/ \E t \in BagToSet(tasks), ok \in BOOLEAN : SettleGuardedToast(t, ok)
    \/ \E t \in BagToSet(tasks), ok \in BOOLEAN : SettleToast(t, ok)
    \/ TrackerCreated
    \/ TrackerRemoved

FsSpec == Init /\ [][FsNext]_vars

----------------------------------------------------------------------------
(* The probes and the instantiation, for the root paths and the filesystems a
   host can start a plugin with *)

OtherRoot == <<"/", "t", "m", "p">>

\* What the host may hand over as `directory`
Directories ==
    {Str(ProjectRoot), Str(OtherRoot), Undefined, Null, Num(<<"7">>), Bool(TRUE),
     Obj(<<>>), Obj([path |-> Str(ProjectRoot)])}

\* Texts of the records file: empty, blank, one record
RecordsTexts == {<<>>, <<" ", "\n">>, <<"{", "}", "\n">>}

\* The tracker directory with `entry` at the path of the records file
WithRecords(entry) ==
    [path \in {join(ProjectRoot, ".beads"), join3(ProjectRoot, ".beads", "issues.jsonl")} |->
        IF path = join(ProjectRoot, ".beads") THEN Dir ELSE entry]

FileSystems ==
    {NoFiles, Tracker}
        \cup {WithRecords(File(text, TRUE)) : text \in RecordsTexts}
        \cup {WithRecords(File(<<"{", "}", "\n">>, FALSE)), WithRecords(Dir)}

ProbeInit ==
    /\ loaded = {}
    /\ directory \in Directories
    /\ fs \in FileSystems
    /\ observed = NotCalled
    /\ beadsExists = [p \in Plugins |-> FALSE]
    /\ hooks = [p \in Plugins |-> {}]
    /\ injectedSessions = [p \in Plugins |-> {}]
    /\ calls = [p \in Plugins |-> EmptyBag]
    /\ tasks = EmptyBag
    /\ rejected = [p \in Plugins |-> {}]
    /\ ended = Finished(Main, HookAfter, <<>>, Undefined, Undefined)
    /\ delivered = [p \in Plugins |-> [k \in DeliveryKeys |-> 0]]
    /\ n = 0

\* hasBeadsDirectory(directory) is called
ProbeDirectory ==
    /\ observed.exists = {}
    /\ observed' = [observed EXCEPT !.exists = {Returned(hasBeadsDirectory(fs, directory))}]
    /\ UNCHANGED <<loaded, directory, fs, beadsExists, hooks, injectedSessions, calls,
                   tasks, rejected, ended, delivered, n>>

\* hasBeadsIssues(directory) is called
ProbeIssues ==
    /\ observed.hasRecords = {}
    /\ observed' = [observed EXCEPT !.hasRecords = {hasBeadsIssues(fs, directory)}]
    /\ UNCHANGED <<loaded, directory, fs, beadsExists, hooks, injectedSessions, calls,
                   tasks, rejected, ended, delivered, n>>

\* The host loads plugin p: it calls the plugin function and keeps its result
Start(p) ==
    /\ p \notin loaded
    /\ loaded' = loaded \cup {p}
    /\ beadsExists' = [beadsExists EXCEPT ![p] = Instantiate(p, fs, directory).beadsExists]
    /\ hooks' = [hooks EXCEPT ![p] = Instantiate(p, fs, directory).hooks]
    /\ UNCHANGED <<directory, fs, observed, injectedSessions, calls, tasks, rejected,
                   ended, delivered, n>>

\* The probes, the instantiation, and the host delivering to the hooks that
\* the instantiation registered
ProbeNext ==
    \/ ProbeDirectory
    \/ ProbeIssues
    \/ \E p \in Plugins : Start(p)
    \/ \E p \in Plugins : SessionCreated(p, abc)
    \/ \E p \in Plugins : Dispatch_before(p, todowrite, Obj(<<>>))
    \/ \E p \in Plugins : Dispatch_after(p, todowrite, Obj([output |-> Str(done)]))

ProbeSpec == ProbeInit /\ [][ProbeNext]_vars

----------------------------------------------------------------------------
(* Every collaborator call is settled: the host resolves or rejects each
   pending call in the end *)

LiveNext ==
    \/ \E p \in Plugins, s \in {abc, xyz} : SessionCreated(p, s)
    \/ \E p \in Plugins, tool \in {todowrite, bash} : Dispatch_before(p, tool, Obj(<<>>))
    \/ \E p \in Plugins, tool \in {todowrite, bd_create}, output \in ToolOutputs :
            Dispatch_after(p, tool, output)
    \/ \E t \in BagToSet(tasks), ok \in BOOLEAN : SettlePrompt(t, ok)
    \/ \E t \in BagToSet(tasks), ok \in BOOLEAN : SettleGuardedToast(t, ok)
    \/ \E t \in BagToSet(tasks), ok \in BOOLEAN : SettleToast(t, ok)

LiveSpec ==
    /\ Init /\ [][LiveNext]_vars
    /\ WF_vars(\E t \in BagToSet(tasks), ok \in BOOLEAN : SettlePrompt(t, ok))
    /\ WF_vars(\E t \in BagToSet(tasks), ok \in BOOLEAN : SettleGuardedToast(t, ok))
    /\ WF_vars(\E t \in BagToSet(tasks), ok \in BOOLEAN : SettleToast(t, ok))

----------------------------------------------------------------------------
(* Both plugins loaded for one root path, the host delivering every event to
   BeadsPlugin first and then to BeadsGuardPlugin when it has the hook *)

PairInit ==
    /\ loaded = Plugins
    /\ directory \in {Str(ProjectRoot), Undefined}
    /\ fs \in {NoFiles, Tracker}
    /\ observed = NotCalled
    /\ beadsExists = [p \in Plugins |-> Load(p, loaded, fs, directory).beadsExists]
    /\ hooks = [p \in Plugins |-> Load(p, loaded, fs, directory).hooks]
    /\ injectedSessions = [p \in Plugins |-> {}]
    /\ calls = [p \in Plugins |-> EmptyBag]
    /\ tasks = EmptyBag
    /\ rejected = [p \in Plugins |-> {}]
    /\ ended = Finished(Main, HookAfter, <<>>, Undefined, Undefined)
    /\ delivered = [p \in Plugins |-> [k \in DeliveryKeys |-> 0]]
    /\ n = 0

\* BeadsPlugin has ended an after-execute event, or a before-execute event of
\* a tool other than todowrite, that BeadsGuardPlugin has yet to be given
Owed ==
    /\ hooks[Guard] # {}
    /\ ended.plugin = Main /\ ended.tool # <<>>
    /\ ended.hook = HookAfter \/ ended.tool # todowrite

\* BeadsGuardPlugin has been given every event BeadsPlugin has been given
InStep ==
    \/ hooks[Guard] = {}
    \/ ~Owed /\ delivered[Guard] = delivered[Main]

\* The host's turn for plugin p with the input counted under key
Turn(p, key) ==
    IF p = Main THEN InStep ELSE ~Owed /\ Count(Guard, key) < Count(Main, key)

\* The host's turn for plugin p with a tool event that is not counted
TurnTool(p, hook, tool, object) ==
    IF p = Main THEN InStep
    ELSE Owed /\ ended.hook = hook /\ ended.tool = tool /\ ended.input = object

PairNext ==
    \/ \E p \in Plugins, s \in {abc, xyz} :
            Turn(p, <<HookEvent, s>>) /\ SessionCreated(p, s)
    \/ \E p \in Plugins :
            Turn(p, <<HookBefore, todowrite>>) /\ Dispatch_before(p, todowrite, Obj(<<>>))
    \/ \E p \in Plugins :
            TurnTool(p, HookBefore, bash, Obj(<<>>)) /\ Dispatch_before(p, bash, Obj(<<>>))
    \/ \E p \in Plugins, tool \in {todowrite, bash}, output \in ToolOutputs :
            TurnTool(p, HookAfter, tool, output) /\ Dispatch_after(p, tool, output)
    \/ \E t \in BagToSet(tasks), ok \in BOOLEAN : SettlePrompt(t, ok)
    \/ \E t \in BagToSet(tasks), ok \in BOOLEAN : SettleGuardedToast(t, ok)

PairSpec == PairInit /\ [][PairNext]_vars

----------------------------------------------------------------------------
(* Observations used by the properties *)

\* The number of plugin p's calls that satisfy Test
Number(p, Test(_)) ==
    BagCardinality([c \in {d \in BagToSet(calls[p]) : Test(d)} |-> calls[p][c]])

\* session.prompt calls issued for session s
Prompts(p, s) == Number(p, LAMBDA c : c.op = "session.prompt" /\ c.id = s)

\* informational toasts issued by the event handler while handling session s
InfoToasts(p, s) ==
    Number(p, LAMBDA c : c.op = "tui.showToast" /\ c.hook = HookEvent
                          /\ c.subject = s /\ c.variant = "info")

\* toasts issued by the before-execute handler
BeforeToasts(p) == Number(p, LAMBDA c : c.op = "tui.showToast" /\ c.hook = HookBefore)

\* event-handler invocations for session s that are suspended at an await
SuspendedFor(p, s) ==
    {t \in BagToSet(tasks) : t.plugin = p /\ t.hook = HookEvent /\ t.subject = s}

NumSuspendedFor(p, s) ==
    BagCardinality([t \in SuspendedFor(p, s) |-> tasks[t]])

\* Every call made for session s has resolved and its handler has returned
SucceededFor(p, s) ==
    /\ SuspendedFor(p, s) = {}
    /\ \A c \in BagToSet(calls[p]) :
            (c.hook = HookEvent /\ c.subject = s) => c.state = "resolved"

----------------------------------------------------------------------------
(* Properties *)

\* C1: a session id triggers the message injection (client.session.prompt) at
\* most once per plugin instance, whatever events arrive and however the
\* collaborator calls are settled.
C1_AtMostOneInjection ==
    \A p \in Plugins, s \in SessionIds : Prompts(p, s) <= 1

\* C1 witness: a session.created event was delivered three times for one
\* session, and one prompt was issued for it.
C1_Witness ==
    \E p \in Plugins, s \in SessionIds :
        Count(p, <<HookEvent, s>>) = 3 /\ Prompts(p, s) = 1

\* C2: with the tracker present and the calls succeeding, once the
\* session.created event for s has been handled (once, twice, or more often)
\* there is exactly one injected message and exactly one informational toast for
\* s; the same holds independently for every other session id t.
C2_Idempotent ==
    \A p \in Plugins, s \in SessionIds :
        (beadsExists[p] /\ Count(p, <<HookEvent, s>>) >= 1 /\ SucceededFor(p, s))
            => (Prompts(p, s) = 1 /\ InfoToasts(p, s) = 1)

\* C2 witness: two events for "abc" and one for "xyz" have been handled with
\* every call resolved: one injection and one toast for each of the two.
C2_Witness ==
    \E p \in Plugins :
        /\ Count(p, <<HookEvent, abc>>) = 2 /\ Count(p, <<HookEvent, xyz>>) = 1
        /\ SucceededFor(p, abc) /\ SucceededFor(p, xyz)
        /\ Prompts(p, abc) = 1 /\ InfoToasts(p, abc) = 1
        /\ Prompts(p, xyz) = 1 /\ InfoToasts(p, xyz) = 1
        /\ BagCardinality(calls[p]) = 4

\* C3: of the deliveries of session.created for one session id that are in
\* flight at once, only one passes the "already injected" check: at most one
\* invocation for the session is ever suspended at an await, and while it is
\* suspended the session is already in the set.
C3_AtomicCheckAndMark ==
    \A p \in Plugins, s \in SessionIds :
        /\ NumSuspendedFor(p, s) <= 1
        /\ (SuspendedFor(p, s) # {} => s \in injectedSessions[p])

\* C3 witness: a second delivery for the session arrived while the first one's
\* prompt was still pending, and only one prompt was issued.
C3_Witness ==
    \E p \in Plugins, s \in SessionIds :
        /\ Count(p, <<HookEvent, s>>) >= 2
        /\ \E t \in SuspendedFor(p, s) : t.pc = "prompt"
        /\ Count(p, <<Retried, s>>) = 0
        /\ BagCardinality(calls[p]) = 1

\* C4: mark-before-send: whenever a message-injection call or an informational
\* toast for session s has been issued, s is in the injected-session set.
C4_MarkBeforeSend ==
    \A p \in Plugins : \A c \in BagToSet(calls[p]) :
        c.hook = HookEvent => c.subject \in injectedSessions[p]

\* C4 witness: the prompt for a session is pending (just sent), and the
\* session is marked.
C4_Witness ==
    \E p \in Plugins : \E c \in BagToSet(calls[p]) :
        /\ c.op = "session.prompt" /\ c.state = "pending"
        /\ c.id \in injectedSessions[p]

\* C5: when the prompt or the toast for session s has been rejected, the event
\* handler has not rejected into the host, s is still in the set, and later
\* session.created events for s have issued no further call: still one prompt
\* and at most one toast for s.
C5_FailureKeepsMark ==
    \A p \in Plugins, s \in SessionIds :
        RejectedFor(p, s) =>
            /\ HookEvent \notin rejected[p]
            /\ s \in injectedSessions[p]
            /\ Prompts(p, s) = 1
            /\ InfoToasts(p, s) <= 1

\* C5 witness: the prompt for a session was rejected, two more session.created
\* events for it arrived afterwards, and no handler is suspended.
C5_Witness ==
    \E p \in Plugins, s \in SessionIds :
        /\ RejectedFor(p, s)
        /\ Count(p, <<Retried, s>>) = 2
        /\ tasks = EmptyBag
        /\ Prompts(p, s) = 1

\* C6: no hook handler of a plugin ever throws or rejects into the host's
\* dispatcher, however the toast and prompt calls are settled.
C6_NoHandlerRejects ==
    \A p \in Plugins : rejected[p] = {}

\* C7 (as claimed): with the tracker directory absent at instantiation, the
\* plugin injects no message, shows no toast and mutates no tool output,
\* whatever events of whatever hook arrive.
C7_InertNoCalls ==
    \A p \in Plugins :
        ~beadsExists[p] =>
            /\ calls[p] = EmptyBag
            /\ injectedSessions[p] = {}
            /\ (ended.plugin = p => ended.output = ended.input)

\* C7 (amended): with the tracker directory absent at instantiation, the
\* plugin injects no message, marks no session, mutates no tool output and
\* shows no toast other than the result or error toast of the after-execute
\* event of a bd_ tool.
C7_InertGuard ==
    \A p \in Plugins :
        ~beadsExists[p] =>
            /\ \A c \in BagToSet(calls[p]) :
                    /\ c.op = "tui.showToast"
                    /\ c.hook = HookAfter
                    /\ StartsWith(c.subject, BD_PREFIX)
            /\ injectedSessions[p] = {}
            /\ (ended.plugin = p => ended.output = ended.input)

\* C7 witness: BeadsPlugin without a tracker directory has handled a
\* session.created event, a before-execute event of todowrite and an
\* after-execute event of todowrite with a text output.
C7_Witness ==
    /\ ~beadsExists[Main] /\ Hooks \subseteq hooks[Main]
    /\ Count(Main, <<HookEvent, abc>>) = 1
    /\ Count(Main, <<HookBefore, todowrite>>) = 1
    /\ ended.plugin = Main /\ ended.hook = HookAfter /\ ended.tool = todowrite
    /\ TypeOf(Get(ended.input, "output")) = "string"

\* C8: handling an event that does not have the session.created shape changes
\* neither the injected-session set nor the calls made, suspends nothing and
\* does not reject.
C8_MalformedIgnored ==
    [][\A p \in Plugins :
            (/\ Count(p, <<Malformed, <<>>>>)' # Count(p, <<Malformed, <<>>>>)
             /\ \E e \in MalformedEvents : OtherEvent(p, e))
            => UNCHANGED <<injectedSessions, calls, tasks, rejected>>]_vars

\* C8 witness: a plugin with the tracker present has handled three events of
\* another shape and has done nothing.
C8_Witness ==
    \E p \in Plugins :
        /\ beadsExists[p]
        /\ Count(p, <<Malformed, <<>>>>) = 3
        /\ injectedSessions[p] = {} /\ calls[p] = EmptyBag

\* C9: a session.created event whose session id is the empty string is treated
\* as malformed: the empty id is never added to the set and no call is made for it.
C9_EmptyIdIgnored ==
    \A p \in Plugins :
        /\ EmptyId \notin injectedSessions[p]
        /\ Prompts(p, EmptyId) = 0
        /\ InfoToasts(p, EmptyId) = 0

\* C10: while the tracker is present, the before-execute handler has attempted
\* exactly one toast per todowrite event, each of warning severity with the
\* fixed message, and none for any other tool, whatever the arguments.
C10_OneWarningPerTodowrite ==
    \A p \in Plugins :
        beadsExists[p] =>
            /\ BeforeToasts(p) = Count(p, <<HookBefore, todowrite>>)
            /\ \A c \in BagToSet(calls[p]) :
                    c.hook = HookBefore =>
                        /\ c.subject = todowrite
                        /\ c.variant = "warning"
                        /\ c.message = TODOWRITE_WARNING(p)

\* C10 witness: two before-execute events of todowrite and one of another tool
\* have been handled; two warnings were attempted.
C10_Witness ==
    \E p \in Plugins :
        /\ beadsExists[p]
        /\ Count(p, <<HookBefore, todowrite>>) = 2
        /\ n = 3
        /\ BeforeToasts(p) = 2
        /\ BagCardinality(calls[p]) = 2
        /\ injectedSessions[p] = {}
        /\ Count(p, <<Malformed, <<>>>>) = 0
        /\ ended.hook = HookBefore /\ ended.tool = bash

\* A step of the before-execute handler: its synchronous part, or its
\* resumption after the warning toast was settled
BeforeStep ==
    \/ \E p \in Plugins, tool \in HostTools, args \in ToolArgs : Dispatch_before(p, tool, args)
    \/ \E t \in BagToSet(tasks), ok \in BOOLEAN : t.hook = HookBefore /\ SettleGuardedToast(t, ok)

\* C11: the before-execute handler never rejects into the host, also when the
\* warning toast is rejected; it leaves the input it was given as it was, and
\* none of its steps changes the injected-session set, the presence flag, the
\* registered hooks or a tool output.
C11_AdvisesNeverBlocks ==
    [][/\ \A p \in Plugins : HookBefore \notin rejected'[p]
       /\ ended'.hook = HookBefore => ended'.output = ended'.input
       /\ UNCHANGED <<injectedSessions, beadsExists, hooks, rejected>> \/ ~BeforeStep]_vars

\* C11 witness: the warning toast of a before-execute event of todowrite was
\* rejected and the handler has returned, with its input as it was given.
C11_Witness ==
    \E p \in Plugins : \E c \in BagToSet(calls[p]) :
        /\ c.hook = HookBefore /\ c.state = "rejected"
        /\ tasks = EmptyBag
        /\ rejected[p] = {}
        /\ ended.plugin = p /\ ended.hook = HookBefore /\ ended.tool = todowrite
        /\ ended.input = Obj([todos |-> Str(abc)])
        /\ ended.output = ended.input

\* C12: while the tracker is present, when the after-execute handler has ended
\* for todowrite with a text output t, the output is t followed by the tip: t
\* is its prefix, unchanged, the rest is exactly the tip, and no other field of
\* the output object has changed.
C12_TipAppended ==
    \A p \in Plugins :
        (/\ ended.plugin = p /\ beadsExists[p]
         /\ ended.hook = HookAfter /\ ended.tool = todowrite
         /\ TypeOf(Get(ended.input, "output")) = "string")
        => LET t == Get(ended.input, "output").v
               out == Get(ended.output, "output")
           IN  /\ TypeOf(out) = "string"
               /\ Len(out.v) = Len(t) + Len(TIP(p))
               /\ SubSeq(out.v, 1, Len(t)) = t
               /\ SubSeq(out.v, Len(t) + 1, Len(out.v)) = TIP(p)
               /\ ended.output = [ended.input EXCEPT !.v["output"] = out]

\* C12 witness: with the tracker present, an after-execute event of todowrite
\* with output "done" has been handled and the output is "done" and the tip.
C12_Witness ==
    \E p \in Plugins :
        /\ ended.plugin = p /\ beadsExists[p]
        /\ ended.hook = HookAfter /\ ended.tool = todowrite
        /\ Get(ended.input, "output") = Str(done)
        /\ Get(ended.output, "output") = Str(done \o TIP(p))

\* C13: when the root path is not a string, hasBeadsDirectory and
\* hasBeadsIssues return false (they do not throw), and a plugin instantiated
\* with it has registered no hook: the host delivers nothing to it, and
\* it makes no call and marks no session.
C13_NonStringRoot ==
    TypeOf(directory) # "string" =>
        /\ \A r \in observed.exists : r = Returned(FALSE)
        /\ \A r \in observed.hasRecords : r = Returned(FALSE)
        /\ \A p \in loaded : hooks[p] = {} /\ ~beadsExists[p]
        /\ \A p \in Plugins : calls[p] = EmptyBag /\ injectedSessions[p] = {}
        /\ tasks = EmptyBag
        /\ n = 0

\* C13 witness: the root path is an object, the tracker directory with a
\* records file is on the filesystem, both probes have returned false and both
\* plugins have been instantiated.
C13_Witness ==
    /\ directory = Obj([path |-> Str(ProjectRoot)])
    /\ fs = WithRecords(File(<<"{", "}", "\n">>, TRUE))
    /\ observed.exists = {Returned(FALSE)}
    /\ observed.hasRecords = {Returned(FALSE)}
    /\ loaded = Plugins
    /\ \A p \in Plugins : hooks[p] = {}

\* The records file of the root path is a readable file with a character that
\* is not white space
RecordsPresent ==
    /\ TypeOf(directory) = "string"
    /\ LET path == join3(directory.v, ".beads", "issues.jsonl")
       IN  /\ path \in DOMAIN fs
           /\ fs[path].kind = "file" /\ fs[path].readable
           /\ \E i \in 1..Len(fs[path].text) : fs[path].text[i] \notin Whitespace

\* C17: hasBeadsIssues never throws; it returns true exactly when the records
\* file exists, can be read and has a character that is not white space; with
\* the tracker directory present and the records file absent, blank or
\* unreadable, hasBeadsDirectory returns true and hasBeadsIssues false.
C17_ProbesIndependent ==
    /\ \A r \in observed.hasRecords : r.ok /\ (r.value <=> RecordsPresent)
    /\ \A e \in observed.exists, r \in observed.hasRecords :
            (/\ TypeOf(directory) = "string"
             /\ join(directory.v, ".beads") \in DOMAIN fs
             /\ ~RecordsPresent)
            => (e = Returned(TRUE) /\ r = Returned(FALSE))

\* C17 witness: the tracker directory holds a records file of white space
\* only; hasBeadsDirectory has returned true and hasBeadsIssues false.
C17_Witness ==
    /\ directory = Str(ProjectRoot)
    /\ fs = WithRecords(File(<<" ", "\n">>, TRUE))
    /\ observed.exists = {Returned(TRUE)}
    /\ observed.hasRecords = {Returned(FALSE)}

\* C17 second case: a records file with a record: both probes return true.
C17_WitnessRecords ==
    /\ directory = Str(ProjectRoot)
    /\ observed.exists = {Returned(TRUE)}
    /\ observed.hasRecords = {Returned(TRUE)}

\* What plugin p has done is what its presence flag says, whatever is on the
\* filesystem now: without the flag no session is marked, no message injected,
\* no guard toast shown and no output changed; with the flag every session
\* delivered is marked and has its message, every todowrite before-execute
\* event has its warning and a text output of todowrite has the tip.
ActsOnFlag(p) ==
    /\ ~beadsExists[p] =>
            /\ injectedSessions[p] = {}
            /\ \A c \in BagToSet(calls[p]) :
                    c.hook = HookAfter /\ StartsWith(c.subject, BD_PREFIX)
            /\ (ended.plugin = p => ended.output = ended.input)
    /\ beadsExists[p] =>
            /\ \A s \in SessionIds :
                    Count(p, <<HookEvent, s>>) >= 1
                        => (s \in injectedSessions[p] /\ Prompts(p, s) = 1)
            /\ BeforeToasts(p) = Count(p, <<HookBefore, todowrite>>)
            /\ (/\ ended.plugin = p /\ ended.hook = HookAfter /\ ended.tool = todowrite
                /\ TypeOf(Get(ended.input, "output")) = "string")
               => Get(ended.output, "output") = Str(Get(ended.input, "output").v \o TIP(p))

\* C14: the presence flag and the registered hooks never change after
\* instantiation, and the plugin acts on the flag, not on the filesystem: a
\* tracker directory created later leaves the guard inert, one removed later
\* leaves it acting.
C14_PresenceDecidedOnce ==
    /\ [](\A p \in Plugins : ActsOnFlag(p))
    /\ [][beadsExists' = beadsExists /\ hooks' = hooks]_vars

\* C14 witness: BeadsPlugin was instantiated without a tracker directory, the
\* directory was created, and then a session.created event and the before- and
\* after-execute events of todowrite arrived: no call was made.
C14_Witness ==
    /\ ~beadsExists[Main] /\ Hooks \subseteq hooks[Main]
    /\ existsSync(fs, join(directory.v, ".beads"))
    /\ \A h \in Hooks : Count(Main, <<Stale, h>>) = 1
    /\ calls[Main] = EmptyBag
    /\ injectedSessions[Main] = {}
    /\ ended.hook = HookAfter /\ ended.output = Obj([output |-> Str(done)])

\* C14 second case: a plugin was instantiated with the tracker directory, the
\* directory was removed, and then the three events arrived: the session is
\* marked, its message sent, the warning shown and the tip appended.
C14_WitnessRemoved ==
    \E p \in Plugins :
        /\ beadsExists[p]
        /\ ~existsSync(fs, join(directory.v, ".beads"))
        /\ \A h \in Hooks : Count(p, <<Stale, h>>) = 1
        /\ Prompts(p, abc) + Prompts(p, xyz) = 1
        /\ BeforeToasts(p) = 1
        /\ ended.hook = HookAfter /\ ended.output = Obj([output |-> Str(done \o TIP(p))])

\* C15: no step takes a session id out of the injected-session set of a
\* plugin, whatever the step is: a delivery, a resolved call or a rejected one.
C15_SetOnlyGrows ==
    [][\A p \in Plugins : injectedSessions[p] \subseteq injectedSessions'[p]]_vars

\* C15 witness: two sessions are in the set, the calls made for both have been
\* rejected, and the event of one of them has arrived again.
C15_Witness ==
    \E p \in Plugins :
        /\ {abc, xyz} \subseteq injectedSessions[p]
        /\ RejectedFor(p, abc) /\ RejectedFor(p, xyz)
        /\ Count(p, <<Retried, abc>>) = 1
        /\ tasks = EmptyBag

\* The message-injection call of plugin p for session a is pending
PromptPending(p, a) ==
    \E t \in BagToSet(tasks) : t.plugin = p /\ t.pc = "prompt" /\ t.subject = a

\* C16: while the message-injection call for a session a is pending, a
\* session.created event for another session b that is not yet in the set
\* gets b added and b's call issued, a before-execute event of todowrite gets
\* its warning issued and an after-execute event of todowrite is handled to
\* its end, the tip appended to a text output.
C16_HandlersDoNotBlock ==
    [][\A p \in Plugins, a \in SessionIds :
            PromptPending(p, a) =>
                /\ \A b \in SessionIds \ {a} :
                        (b \notin injectedSessions[p] /\ SessionCreated(p, b))
                        => /\ b \in injectedSessions'[p]
                           /\ Prompts(p, b)' = 1
                           /\ PromptPending(p, b)'
                           /\ PromptPending(p, a)'
                /\ (\E args \in ToolArgs : Dispatch_before(p, todowrite, args))
                        => BeforeToasts(p)' = BeforeToasts(p) + 1
                /\ \A output \in ToolOutputs :
                        Dispatch_after(p, todowrite, output)
                        => /\ ended' = Finished(p, HookAfter, todowrite, output,
                                                AppendTip(p, todowrite, output))
                           /\ (TypeOf(Get(output, "output")) = "string" => ended'.output # output)]_vars

\* C16 witness: the calls for two sessions are both pending, and the warning
\* of a todowrite event that arrived meanwhile has been issued.
C16_Witness ==
    \E p \in Plugins :
        /\ PromptPending(p, abc) /\ PromptPending(p, xyz)
        /\ BeforeToasts(p) = 1
        /\ BagCardinality(tasks) = 3

\* The output object holds a text that begins with the error marker
IsErrorOutput(output) ==
    /\ TypeOf(Get(output, "output")) = "string"
    /\ StartsWith(Get(output, "output").v, ERROR_MARKER)

\* The toasts of the tool call are one toast of error severity with the first
\* at most ERROR_MAX characters of the text
OneErrorToast(text) ==
    /\ BagCardinality(calls[Main]) = 1
    /\ \A c \in BagToSet(calls[Main]) :
            /\ c.op = "tui.showToast" /\ c.variant = "error"
            /\ Len(c.message) <= ERROR_MAX
            /\ Len(c.message) <= Len(text)
            /\ c.message = SubSeq(text, 1, Len(c.message))
            /\ (Len(c.message) < ERROR_MAX => c.message = text)

\* C18: when BeadsPlugin handles the after-execute event of a bd_ tool whose
\* text output begins with "Error:", it shows exactly one toast, of error
\* severity, with the first at most 100 characters of the output, and no
\* other toast, while its toast is pending and after the handler has ended.
C18_ErrorToast ==
    /\ \A t \in BagToSet(tasks) :
            (/\ t.plugin = Main /\ t.hook = HookAfter
             /\ StartsWith(t.subject, BD_PREFIX) /\ IsErrorOutput(t.output))
            => OneErrorToast(Get(t.output, "output").v)
    /\ (/\ ended.plugin = Main /\ ended.hook = HookAfter
        /\ StartsWith(ended.tool, BD_PREFIX) /\ IsErrorOutput(ended.input))
       => OneErrorToast(Get(ended.input, "output").v)

\* C18 witness: bd_create has returned an error text of more than 100
\* characters; the one toast, with 100 characters, has resolved and the
\* handler has ended.
C18_Witness ==
    /\ ended.plugin = Main /\ ended.hook = HookAfter /\ ended.tool = bd_create
    /\ ended.input = Obj([output |-> Str(LongErrorText)])
    /\ tasks = EmptyBag
    /\ \E c \in BagToSet(calls[Main]) :
            c.state = "resolved" /\ c.variant = "error" /\ Len(c.message) = ERROR_MAX

\* C19 (as claimed): no toast is ever shown for the after-execute event of a
\* read-only tool, whatever its output.
C19_ReadOnlySilent ==
    \A p \in Plugins : \A c \in BagToSet(calls[p]) :
        c.hook = HookAfter => c.subject \notin readOnlyTools

\* C19 (amended): for the after-execute event of a read-only tool no toast is
\* shown unless the output begins with "Error:", and the only toast ever
\* shown for a read-only tool is the error toast.
C19_ReadOnlyNoResultToast ==
    \A p \in Plugins :
        /\ (/\ ended.plugin = p /\ ended.hook = HookAfter
            /\ ended.tool \in readOnlyTools /\ ~IsErrorOutput(ended.input))
           => (calls[p] = EmptyBag /\ ended.output = ended.input)
        /\ \A c \in BagToSet(calls[p]) :
                (c.hook = HookAfter /\ c.subject \in readOnlyTools)
                => (c.variant = "error" /\ StartsWith(c.message, ERROR_MARKER))

\* C19 witness: BeadsPlugin has handled the after-execute event of bd_list
\* with the output "done" and has shown nothing.
C19_Witness ==
    /\ ended.plugin = Main /\ ended.hook = HookAfter /\ ended.tool = bd_list
    /\ ended.input = Obj([output |-> Str(done)])
    /\ Hooks \subseteq hooks[Main]
    /\ calls[Main] = EmptyBag /\ n = 1

\* C20 (as claimed): a tool returns the command's text as it is when the text
\* is not empty, and a text that is not empty when the command's text is empty.
C20_RawOrFallback ==
    \A r \in observed.ran :
        r.outcome.ok =>
            IF r.outcome.value # <<>> THEN r.result = r.outcome.value ELSE r.result # <<>>

\* The tools that pass no successMessage to the runner
NoFallbackTools ==
    {bd_show, bd_count, bd_epic_show, bd_status, bd_stats, bd_info, bd_validate,
     bd_doctor, bd_prime}

\* C20 (amended): a tool returns the command's text as it is when the text is
\* not empty (bd_count returns it trimmed); when the command's text is empty,
\* the tools that pass a successMessage return that fixed, non-empty message
\* and the nine tools that pass none return the empty text.
C20_RawOrSuccessMessage ==
    \A r \in observed.ran :
        r.outcome.ok =>
            /\ (r.outcome.value # <<>> /\ r.tool # bd_count) => r.result = r.outcome.value
            /\ (r.outcome.value # <<>> /\ r.tool = bd_count) => r.result = Trim(r.outcome.value)
            /\ r.outcome.value = <<>> =>
                    /\ r.result = <<>> <=> r.tool \in NoFallbackTools
                    /\ r.tool \notin NoFallbackTools
                            => r.result = Get(RunOptions(r.tool), "successMessage").v

\* C20 witness: bd_list has run a command that wrote nothing and has returned
\* its fixed message.
C20_Witness ==
    \E r \in observed.ran :
        /\ r.tool = bd_list /\ r.outcome = Returned(<<>>)
        /\ r.result = <<"No issues found">>

\* C20 second case: bd_create has returned the text of its command as it is.
C20_WitnessRaw ==
    \E r \in observed.ran :
        r.tool = bd_create /\ r.outcome = Returned(IdJson) /\ r.result = IdJson

\* C21: a call of a tool in which the shell raises returns a text: "Error: "
\* followed by the message of the error (trimmed by bd_count), which the
\* after-execute hook takes for an error text; and a call made after one that
\* raised returns what the same call returns at any other time.
C21_RunnerNeverThrows ==
    \A r \in observed.ran :
        /\ ~r.outcome.ok =>
                /\ r.result = IF r.tool = bd_count
                              THEN Trim(ERROR_MARKER \o <<" ">> \o r.outcome.value)
                              ELSE ERROR_MARKER \o <<" ">> \o r.outcome.value
                /\ IsErrorOutput(Obj([output |-> Str(r.result)]))
        /\ (r.afterFailure /\ r.outcome.ok /\ r.outcome.value # <<>>) =>
                r.result = IF r.tool = bd_count THEN Trim(r.outcome.value) ELSE r.outcome.value
        /\ (r.afterFailure /\ r.outcome = Returned(<<>>) /\ r.tool \notin NoFallbackTools) =>
                r.result = Get(RunOptions(r.tool), "successMessage").v

\* C21 witness: the shell has raised in a call, and the call of bd_create
\* after it has returned the text of its command.
C21_Witness ==
    \E r \in observed.ran :
        /\ r.afterFailure
        /\ r.tool = bd_create /\ r.outcome = Returned(IdJson) /\ r.result = IdJson

\* C21 first case: the shell has raised in a call of bd_count, which has
\* returned the error text.
C21_WitnessRaised ==
    \E r \in observed.ran :
        /\ r.tool = bd_count /\ r.outcome = Raise(<<"spawn failed">>)
        /\ r.result = ERROR_MARKER \o <<" ", "spawn failed">>

\* The message-injection call of plugin p for session s has been issued and
\* has resolved
PromptResolved(p, s) ==
    \E c \in BagToSet(calls[p]) :
        c.op = "session.prompt" /\ c.id = s /\ c.state = "resolved"

\* C22: every call the event handler makes for a session is either the
\* message injection (no-reply flag set, the fixed reminder text, addressed to
\* the session of the event) or the informational toast with its fixed text;
\* the toast for a session is issued only by a step before which the
\* session's message injection had been issued, and only when it has resolved.
C22_PromptBeforeToast ==
    /\ [](\A p \in Plugins : \A c \in BagToSet(calls[p]) :
            c.hook = HookEvent =>
                \/ /\ c.op = "session.prompt" /\ c.noReply
                   /\ c.message = BEADS_CONTEXT(p) /\ c.id = c.subject
                \/ /\ c.op = "tui.showToast" /\ c.variant = "info"
                   /\ c.message = INJECT_TOAST
                   /\ PromptResolved(p, c.subject))
    /\ [][\A p \in Plugins, s \in SessionIds :
            InfoToasts(p, s)' > InfoToasts(p, s)
                => (Prompts(p, s) = 1 /\ Prompts(p, s)' = 1 /\ PromptResolved(p, s)')]_vars

\* C22 witness: the message injection for session "abc" has resolved and the
\* informational toast for it has been issued and is pending.
C22_Witness ==
    \E p \in Plugins :
        /\ PromptResolved(p, abc)
        /\ InfoToasts(p, abc) = 1
        /\ \E t \in SuspendedFor(p, abc) : t.pc = "toast" /\ t.call.state = "pending"

\* Calls of plugin p: session.prompt calls, rejected calls, handler
\* invocations suspended at the await of session.prompt
NumPrompts(p) == Number(p, LAMBDA c : c.op = "session.prompt")

NumRejected(p) == Number(p, LAMBDA c : c.state = "rejected")

NumAwaitingPrompt(p) ==
    BagCardinality([t \in {u \in BagToSet(tasks) : u.plugin = p /\ u.pc = "prompt"} |-> tasks[t]])

\* C23: when every call is settled in the end, every handler invocation that
\* is suspended ends; a step of a handler issues at most one call; a
\* resumption never issues a message injection, issues nothing after a
\* rejected call (no retry), and issues a call, the informational toast, only
\* when it resumes from the message injection: so one invocation issues at
\* most one message injection and at most one toast.
C23_HandlersComplete ==
    /\ (tasks # EmptyBag) ~> (tasks = EmptyBag)
    /\ [][\A p \in Plugins :
            /\ BagCardinality(calls'[p]) <= BagCardinality(calls[p]) + 1
            /\ n' = n =>
                    /\ NumPrompts(p)' = NumPrompts(p)
                    /\ NumRejected(p)' > NumRejected(p)
                            => BagCardinality(calls'[p]) = BagCardinality(calls[p])
                    /\ BagCardinality(calls'[p]) > BagCardinality(calls[p])
                            => NumAwaitingPrompt(p)' = NumAwaitingPrompt(p) - 1]_vars

\* C23 witness: three handlers were suspended, the message injection of one
\* was rejected, and all of them have ended: three calls were made.
C23_Witness ==
    \E p \in Plugins :
        /\ n = 3 /\ tasks = EmptyBag
        /\ RejectedFor(p, abc) /\ Prompts(p, abc) = 1 /\ InfoToasts(p, abc) = 0
        /\ BagCardinality(calls[p]) = 3
        /\ BeforeToasts(p) = 1

\* C24: a tool hook leaves the object it was given as it was, unless it is
\* the after-execute hook of todowrite with the tracker present and a text
\* output; and a step changes the injected-session set of a plugin only when
\* it is the delivery of a session.created event to that plugin.
C24_FrameOfHandlers ==
    /\ [](ended.output # ended.input =>
            /\ ended.hook = HookAfter /\ ended.tool = todowrite
            /\ beadsExists[ended.plugin]
            /\ TypeOf(Get(ended.input, "output")) = "string")
    /\ [][\A p \in Plugins :
            injectedSessions'[p] # injectedSessions[p]
                => \E s \in SessionIds : SessionCreated(p, s)]_vars

\* C24 witness: BeadsPlugin, with the tracker present and a session marked,
\* has handled the after-execute event of bd_create with a text output and
\* has left the output as it was.
C24_Witness ==
    /\ beadsExists[Main] /\ injectedSessions[Main] = {abc}
    /\ ended = Finished(Main, HookAfter, bd_create, Obj([output |-> Str(done)]),
                        Obj([output |-> Str(done)]))
    /\ tasks = EmptyBag

\* C24 second case: a plugin with the tracker present has handled the
\* after-execute event of todowrite with an output that is not a text.
C24_WitnessNonText ==
    \E p \in Plugins :
        /\ beadsExists[p]
        /\ ended = Finished(p, HookAfter, todowrite, Obj([output |-> Undefined]),
                            Obj([output |-> Undefined]))

\* What the host sees of a call: its kind, the session it is addressed to,
\* its severity and its text
Seen(c) == [op |-> c.op, id |-> c.id, variant |-> c.variant, message |-> c.message]

\* The number of calls of plugin p that the host sees as `seen`
NumSeen(p, seen) == Number(p, LAMBDA c : Seen(c) = seen)

\* C25: when both plugins have been given the same events of tools that are
\* not bd_ tools and every call has resolved, they have issued the same calls
\* (kind, session id, severity and text), each as often; and
\* BeadsGuardPlugin, given the tool event BeadsPlugin has just ended, leaves
\* the object as BeadsPlugin left it.
C25_GuardEquivalent ==
    /\ []((/\ hooks[Guard] # {} /\ InStep /\ tasks = EmptyBag
            /\ \A p \in Plugins : \A c \in BagToSet(calls[p]) : c.state = "resolved")
           => \A p \in Plugins : \A c \in BagToSet(calls[p]) :
                    NumSeen(Main, Seen(c)) = NumSeen(Guard, Seen(c)))
    /\ [](hooks[Guard] = {} => (calls[Main] = EmptyBag /\ ended.output = ended.input))
    /\ [][(/\ Owed /\ ended'.plugin = Guard /\ n' = n + 1
            /\ ended'.hook = ended.hook /\ ended'.tool = ended.tool
            /\ ended'.input = ended.input)
           => ended'.output = ended.output]_vars

\* The message-injection call of plugin p for session s has been rejected
PromptRejected(p, s) ==
    \E c \in BagToSet(calls[p]) :
        c.op = "session.prompt" /\ c.id = s /\ c.state = "rejected"

\* C26: once the message-injection call for a session has been rejected, no
\* informational toast for that session has been or is ever issued, whatever
\* events for the session arrive afterwards.
C26_NoToastAfterRejectedPrompt ==
    \A p \in Plugins, s \in SessionIds :
        PromptRejected(p, s) => InfoToasts(p, s) = 0

\* C26 witness: the message injection for "abc" was rejected and the event
\* for "abc" arrived again: no toast for "abc"; the session "xyz", whose
\* message injection resolved, has its toast.
C26_Witness ==
    \E p \in Plugins :
        /\ PromptRejected(p, abc)
        /\ Count(p, <<Retried, abc>>) = 1
        /\ InfoToasts(p, abc) = 0
        /\ PromptResolved(p, xyz) /\ InfoToasts(p, xyz) = 1

\* C27: the injected-session sets start empty; a step in which plugin p is
\* given an event or resumes changes no other plugin's set; and when both
\* plugins, instantiated with the tracker present, have been given the
\* session.created event of a session, each has marked the session in its own
\* set and each has issued its own message injection, once.
C27_SetPerInstance ==
    /\ (n = 0 => \A p \in Plugins : injectedSessions[p] = {})
    /\ [](\A p \in Plugins, s \in SessionIds :
            (beadsExists[p] /\ Count(p, <<HookEvent, s>>) >= 1)
                => (s \in injectedSessions[p] /\ Prompts(p, s) = 1))
    /\ [][\A p \in Plugins :
            injectedSessions'[p] # injectedSessions[p]
                => /\ delivered'[p] # delivered[p]
                   /\ \A q \in Plugins \ {p} :
                        /\ injectedSessions'[q] = injectedSessions[q]
                        /\ calls'[q] = calls[q]]_vars

\* C27 witness: both plugins have been given the session.created event of
\* "abc", BeadsPlugin twice: the session is in both sets and the process has
\* issued two message injections for it, one by each plugin.
C27_Witness ==
    /\ Count(Main, <<HookEvent, abc>>) = 2 /\ Count(Guard, <<HookEvent, abc>>) = 1
    /\ \A p \in Plugins : abc \in injectedSessions[p] /\ Prompts(p, abc) = 1

\* The message that names k issues for one of the IdsTools
IssuesMessage(tool, k) ==
    NumberToString(k) \o <<" ">> \o (IF k = 1 THEN <<"issue">> ELSE <<"issue", "s">>)
        \o (CASE tool = bd_update -> <<" updated">>
               [] tool = bd_close -> <<" closed">>
               [] tool = bd_reopen -> <<" reopened">>
               [] tool = bd_delete_issue -> <<" deleted">>)

\* C28: for bd_update, bd_close, bd_reopen and bd_delete_issue the success
\* toast names as many issues as the tool has put identifier arguments in the
\* argument vector it handed to the runner for the same ids text, with
\* "issue" in the singular exactly when that number is 1.
C28_ToastCountsIdsPassed ==
    \A r \in observed.commands :
        r.tool \in IdsTools =>
            r.toast = ToastConfig(IssuesMessage(r.tool, Len(IdsOf(r.tool, r.argv))), "success")

\* C28, counting the identifier arguments the command receives from the
\* shell instead: the toast names as many issues as the command is given
\* identifiers.
C28_ToastCountsIdsReceived ==
    \A r \in observed.commands :
        (r.tool \in IdsTools /\ r.shell.kind = "words") =>
            r.toast = ToastConfig(IssuesMessage(r.tool, Len(IdsOf(r.tool, Tail(r.shell.words)))),
                                  "success")

\* C29: the words the shell makes of the command string the runner has
\* built are "bd" followed by the arguments of the vector the tool handed to
\* the runner, each as it was and in the same order: the text is split
\* without a syntax error and no character of it ends the command.
C29_CommandRoundTrip ==
    \A r \in observed.commands :
        r.shell = [kind |-> "words", words |-> << <<"bd">> >> \o r.argv]

\* The calls of BeadsPlugin are one toast for the tool, of success or info
\* severity
OneResultToast(tool) ==
    /\ BagCardinality(calls[Main]) = 1
    /\ \A c \in BagToSet(calls[Main]) :
            /\ c.op = "tui.showToast" /\ c.hook = HookAfter /\ c.subject = tool
            /\ c.variant \in {"success", "info"}

\* C30: the 36 registered tools are the read-only tools and the tools with a
\* toast configuration, and no tool is both; when BeadsPlugin has handled the
\* after-execute event of a registered tool whose output is not an error
\* text, it has shown nothing if the tool is read-only and exactly one toast
\* of success or info severity if it is not, whatever the output.
C30_TwoClasses ==
    /\ Cardinality(RegisteredTools) = 36
    /\ RegisteredTools = readOnlyTools \cup NotifyingTools
    /\ readOnlyTools \cap NotifyingTools = {}
    /\ \A t \in BagToSet(tasks) :
            (/\ t.plugin = Main /\ t.hook = HookAfter /\ t.subject \in RegisteredTools
             /\ ~IsErrorOutput(t.output))
            => (t.subject \in NotifyingTools /\ OneResultToast(t.subject))
    /\ (/\ ended.plugin = Main /\ ended.hook = HookAfter /\ ended.tool \in RegisteredTools
        /\ ~IsErrorOutput(ended.input))
       => /\ ended.tool \in readOnlyTools => calls[Main] = EmptyBag
          /\ ended.tool \in NotifyingTools => OneResultToast(ended.tool)

\* C30 witness: BeadsPlugin has handled the after-execute event of bd_sync
\* with an empty output: its one toast, of info severity, has resolved.
C30_Witness ==
    /\ ended = Finished(Main, HookAfter, bd_sync, Obj([output |-> Str(<<>>)]),
                        Obj([output |-> Str(<<>>)]))
    /\ tasks = EmptyBag
    /\ \E c \in BagToSet(calls[Main]) : c.variant = "info" /\ c.state = "resolved"

====
